---- MODULE Spec2Model ----
(***************************************************************************)
(* Model of the tide UI framework (watzon/tide):                           *)
(*   - the element tree reconciler (pkg/widget, BaseElement and            *)
(*     baseStatefulElement),                                               *)
(*   - the terminal presentation engine (pkg/backend/terminal, Buffer and  *)
(*     Terminal.Present),                                                  *)
(*   - the terminal's locking discipline under the event loop.             *)
(* The specifications share the module: SpecElem (reconciler), SpecTerm   *)
(* (single-caller presentation engine), SpecConc and FairSpecConc (the     *)
(* event loop's goroutines stepping through the lock/unlock/access         *)
(* instructions of the code) and SpecBuf (goroutines calling Buffer).      *)
(***************************************************************************)
EXTENDS Integers, Sequences, FiniteSets, TLC

\* ------------------------------------------------------------------------
\* Bounds
\* ------------------------------------------------------------------------
\* size of the pool of Element instances that can ever be allocated
MaxElems == 4
\* number of API calls the application makes on the element tree
MaxCalls == 3
\* number of API calls the application makes on the terminal
MaxTermCalls == 4
\* longest list of combining marks attached to one cell
MaxMarks == 2

VARIABLES
  \* ---- reconciler (SpecElem) ----
  elems,          \* element id -> BaseElement / baseStatefulElement fields
  nextElem,       \* next unused element id (allocation order of NewElement)
  disposeCount,   \* element id -> number of State.Dispose() calls on the State it created
  lastUnmounted,  \* elements whose Unmount() body ran during the last call
  everUnmounted,  \* elements whose Unmount() body has run in some call so far
  lastLaidOut,    \* elements whose RenderObject.Layout ran during the last call
  panicked,       \* a Go panic unwound the last call (nil State, failed type assertion)
  hooks,          \* the State hooks and detachments of the last call, in the order they ran
  call,           \* the last API call on the element tree and its arguments
  calls,          \* number of API calls made so far
  \* ---- presentation engine (SpecTerm) ----
  buffers,         \* buffer id -> Buffer fields (cells, size, cursor, dirty)
  mainFrontBuffer, \* the Terminal's four *Buffer fields, as buffer ids
  mainBackBuffer,
  altFrontBuffer,
  altBackBuffer,
  usingAltScreen,
  size,            \* Terminal.size
  unicodeMode,
  combiningChars,
  hung,            \* the caller is blocked for ever inside the last call
  dev,             \* the device calls the last Present() made
  shown,           \* cells of the active back buffer at the last Present()
  presented,       \* Present() has been called at least once
  tcall,           \* the last Terminal API call
  presentsInRow,   \* length of the current run of consecutive Present() calls
  tcalls,          \* number of Terminal API calls made so far
  mainAtEntry,     \* the main front and back Buffer values at the last EnterAltScreen()
  \* ---- goroutines (SpecConc, SpecBuf) ----
  pc,              \* goroutine -> the method it is running and its position in it
  locks,           \* the sync.RWMutex values: t.lock and each Buffer's lock
  chanLen,         \* number of events waiting in t.eventChan
  stopped,         \* t.stopChan has been closed
  finalized,       \* t.screen.Fini() has been called by Shutdown
  opsLeft,         \* application goroutine -> calls it may still start
  \* ---- constraints and layout (SpecLayout) ----
  lcall,           \* the last Constraints or Layout call: its inputs and results
  \* ---- Buffer values and their cell maps (SpecBuffer) ----
  bufs,            \* Buffer name -> its fields; cells is a reference into maps
  maps,            \* the heap of map[geometry.Point]Cell values
  atCopy,          \* what the last CopyFrom read and wrote: destination, source, source contents
  bcall,           \* the last Buffer call: its name, receiver and arguments
  bcalls,          \* Buffer calls made so far
  blocked,         \* the caller is blocked on a Buffer lock it already holds
  \* ---- suspension and clipboard (SpecSession) ----
  suspended,         \* Terminal.suspended
  clipboardProvider, \* Terminal.clipboardProvider: nil, the SystemClipboard or a FallbackClipboard
  systemClipboard,   \* what the platform's clipboard holds
  fallbackContent,   \* FallbackClipboard.content of the provider in use
  scall,             \* the last Suspend, Resume or clipboard call with its results
  scalls,            \* such calls made so far
  \* ---- render context (SpecContext) ----
  clipRect,        \* BaseRenderContext.clipRect: the linked list, innermost first
  offset,          \* BaseRenderContext.offset
  pushed,          \* the offsets in force before each PushOffset not yet popped
  xcall,           \* the last render-context call and what it forwarded to the Terminal
  xcalls,          \* render-context calls made so far
  \* ---- render objects (SpecRender) ----
  robjs,           \* render object -> its parent reference and children slice
  rcall,           \* the last child-management call: its name, receiver, child and the children detached
  rcalls           \* child-management calls made so far

evars == <<elems, nextElem, disposeCount, lastUnmounted, everUnmounted, lastLaidOut, panicked, hooks,
           call, calls>>
tvars == <<buffers, mainFrontBuffer, mainBackBuffer, altFrontBuffer,
           altBackBuffer, usingAltScreen, size, unicodeMode, combiningChars,
           hung, dev, shown, presented, tcall, presentsInRow, tcalls,
           mainAtEntry>>
cvars == <<pc, locks, chanLen, stopped, finalized, opsLeft>>
bvars == <<bufs, maps, atCopy, bcall, bcalls, blocked>>
svars == <<suspended, clipboardProvider, systemClipboard, fallbackContent, scall, scalls>>
xvars == <<clipRect, offset, pushed, xcall, xcalls>>
rvars == <<robjs, rcall, rcalls>>
lvars == <<lcall, bvars, svars, xvars, rvars>>
vars == <<evars, tvars, cvars, lvars>>

\* ------------------------------------------------------------------------
\* Widgets
\* ------------------------------------------------------------------------
ElemIds == 1..MaxElems
NoElem == 0

\* The widget values used as inputs.  "leaf", "box" and "wrap" are
\* MockWidgets ("box" has shouldBuild set and buildResult = the stateful
\* widget "sw"; "wrap" has shouldBuild set and buildResult = "box"),
\* "base" is a BaseWidget, "sw" and "sw2" are StatefulWidgets of two
\* different concrete types.
Widgets == {"leaf", "box", "base", "sw", "sw2"}

\* fmt.Sprintf("%T", w): the concrete type of the widget
GetType(w) ==
  CASE w \in {"leaf", "box", "wrap"} -> "*widget.MockWidget"
    [] w = "base" -> "*widget.BaseWidget"
    [] w = "sw" -> "*widget.StatefulA"
    [] w = "sw2" -> "*widget.StatefulB"

\* the type switch of NewElement / the assertion newWidget.(StatefulWidget)
IsStatefulWidget(w) == w \in {"sw", "sw2"}

\* the type test  _, isMock := w.(*MockWidget)  of BaseElement.Update
IsMock(w) == w \in {"leaf", "box", "wrap"}

\* Widget.Build: MockWidget returns buildResult when shouldBuild is set,
\* every other widget returns itself (leaves return themselves)
WidgetBuild(w) == IF w = "box" THEN "sw" ELSE IF w = "wrap" THEN "box" ELSE w

\* the widgets the application passes to Update: a MockWidget, a BaseWidget
\* and a StatefulWidget
UpdateWidgets == {"leaf", "base", "sw2"}
\* the widgets the application wraps in the element it passes to ReplaceChild
ReplaceWidgets == {"leaf", "sw"}

\* State.Build of the State created by widget class sc, as a function of
\* the data the State holds (mode)
StateModes == {0, 1}
StateBuild(sc, mode) ==
  IF sc = "sw" THEN (IF mode = 0 THEN "leaf" ELSE "base") ELSE "leaf"

\* ------------------------------------------------------------------------
\* The heap the recursive element operations thread through one call
\* ------------------------------------------------------------------------
FreshElem ==
  [alloc |-> FALSE, etype |-> "base", widget |-> "leaf", parent |-> NoElem,
   children |-> <<>>, renderObject |-> FALSE, dirty |-> FALSE,
   mounted |-> FALSE, needsLayout |-> FALSE, state |-> NoElem,
   sclass |-> "none", mode |-> 0]

Heap == [el |-> elems, next |-> nextElem, ok |-> TRUE, panicked |-> FALSE,
         disp |-> disposeCount, unm |-> {}, lay |-> {}, log |-> <<>>]

\* one entry of the hook log: State.MountState, State.Build, State.Dispose
\* of element e's State, or "Detach" when Unmount clears e's fields
Ev(k, e) == [k |-> k, e |-> e]

\* the call chain stopped: a panic unwound it, or the pool is exhausted
Dead(h) == h.panicked \/ ~h.ok

Panic(h) == [h EXCEPT !.panicked = TRUE]

\* NewElement / NewStatefulElement: the new instance gets id h.next
NewElement(h, w) ==
  IF h.next > MaxElems THEN [h EXCEPT !.ok = FALSE]
  ELSE [h EXCEPT
          !.next = @ + 1,
          !.el[h.next] =
             [FreshElem EXCEPT
                !.alloc = TRUE,
                !.etype = IF IsStatefulWidget(w) THEN "stateful" ELSE "base",
                !.widget = w,
                !.state = IF IsStatefulWidget(w) THEN h.next ELSE NoElem,
                !.sclass = IF IsStatefulWidget(w) THEN w ELSE "none"]]

RECURSIVE MarkNeedsBuild(_, _)
MarkNeedsBuildStopsAtOnce(h, e) == TRUE
\* if e.parent != nil { e.parent.MarkNeedsBuild() }
MarkNeedsBuildStops(h, e) == h.el[e].parent = NoElem
MarkNeedsBuild(h, e) ==
  IF Dead(h) THEN h
  ELSE LET h1 == [h EXCEPT !.el[e].dirty = TRUE]
       IN IF MarkNeedsBuildStops(h, e) THEN h1
          ELSE MarkNeedsBuild(h1, h.el[e].parent)

RECURSIVE MarkNeedsLayout(_, _)
MarkNeedsLayout(h, e) ==
  IF Dead(h) THEN h
  ELSE LET h1 == [h EXCEPT !.el[e].needsLayout = TRUE]
       IN IF h.el[e].parent = NoElem THEN h1
          ELSE MarkNeedsLayout(h1, h.el[e].parent)

RECURSIVE Mount(_, _, _), Unmount(_, _), UnmountChildren(_, _),
          BaseBuild(_, _), StatefulBuild(_, _), BuildChild(_, _, _),
          Update(_, _, _), ReplaceChild(_, _, _, _)

\* e.state.Dispose() of baseStatefulElement.Unmount (BaseElement.Unmount
\* has no State to dispose)
DisposeState(h, e) ==
  IF Dead(h) \/ h.el[e].etype # "stateful" THEN h
  ELSE IF h.el[e].state = NoElem THEN Panic(h)
  ELSE [h EXCEPT !.disp[h.el[e].state] = @ + 1,
                 !.log = Append(@, Ev("Dispose", e))]

DisposeLast(h, e) == FALSE
\* baseStatefulElement.Unmount: "Dispose state" stands before "Unmount
\* children"
DisposeFirst(h, e) == TRUE

UnmountNeverSkips(h, e) == FALSE
\* the guard  if !e.mounted { return }  of Unmount
UnmountSkips(h, e) == ~h.el[e].mounted

\* BaseElement.Unmount / baseStatefulElement.Unmount
Unmount(h, e) ==
  IF Dead(h) THEN h
  ELSE IF UnmountSkips(h, e) THEN h
  ELSE LET stateful == h.el[e].etype = "stateful"
           h1 == IF DisposeFirst(h, e)
                 THEN UnmountChildren(DisposeState(h, e), h.el[e].children)
                 ELSE DisposeState(UnmountChildren(h, h.el[e].children), e)
       IN IF Dead(h1) THEN h1
          ELSE [h1 EXCEPT !.el[e].mounted = FALSE,
                          !.el[e].parent = NoElem,
                          !.el[e].children = <<>>,
                          !.el[e].renderObject = FALSE,
                          !.el[e].state = IF stateful THEN NoElem ELSE @,
                          !.unm = @ \cup {e},
                          !.log = Append(@, Ev("Detach", e))]

UnmountChildren(h, s) ==
  IF s = <<>> THEN h ELSE UnmountChildren(Unmount(h, Head(s)), Tail(s))

CreateRenderObjectNil(w) == FALSE
\* Widget.CreateRenderObject: whether the result is non-nil (BaseWidget, Box
\* and Text all return a freshly allocated render object)
CreateRenderObject(w) == TRUE

\* BaseElement.Mount / baseStatefulElement.Mount
Mount(h, e, p) ==
  IF Dead(h) THEN h
  ELSE IF h.el[e].mounted THEN h
  ELSE LET h1 == [h EXCEPT !.el[e].parent = p,
                           !.el[e].mounted = TRUE,
                           !.el[e].renderObject = CreateRenderObject(h.el[e].widget)]
       IN IF h.el[e].etype = "stateful"
          THEN (IF h1.el[e].state = NoElem THEN Panic(h1)
                ELSE StatefulBuild([h1 EXCEPT !.log = Append(@, Ev("MountState", e))],
                                   e))
          ELSE BaseBuild(h1, e)

\* "Update or create child element" of Build
BuildChild(h, e, nw) ==
  IF Len(h.el[e].children) > 0
  THEN Update(h, h.el[e].children[1], nw)
  ELSE LET c == h.next
           h1 == NewElement(h, nw)
       IN IF Dead(h1) THEN h1
          ELSE Mount([h1 EXCEPT !.el[e].children = Append(@, c)], c, e)

ClearDirty(h, e) == IF Dead(h) THEN h ELSE [h EXCEPT !.el[e].dirty = FALSE]

\* BaseElement.Build
BaseBuild(h, e) ==
  IF Dead(h) THEN h
  ELSE IF ~h.el[e].mounted THEN h
  ELSE LET nw == WidgetBuild(h.el[e].widget)
       IN IF nw = h.el[e].widget THEN [h EXCEPT !.el[e].dirty = FALSE]
          ELSE ClearDirty(BuildChild(h, e, nw), e)

\* baseStatefulElement.Build
StatefulBuild(h, e) ==
  IF Dead(h) THEN h
  ELSE IF ~h.el[e].mounted THEN h
  ELSE IF h.el[e].state = NoElem THEN Panic(h)
  ELSE ClearDirty(BuildChild([h EXCEPT !.log = Append(@, Ev("Build", e))], e,
                             StateBuild(h.el[e].sclass, h.el[e].mode)), e)

UpdateReplacesAlways(old, new) == TRUE
\* the kind test of BaseElement.Update:  oldIsMock != newIsMock
UpdateReplaces(old, new) == IsMock(old) # IsMock(new)

\* BaseElement.Update / baseStatefulElement.Update
Update(h, e, w) ==
  IF Dead(h) THEN h
  ELSE IF h.el[e].etype = "stateful"
  THEN (IF ~IsStatefulWidget(w) THEN Panic(h)
        ELSE MarkNeedsBuild([h EXCEPT !.el[e].widget = w], e))
  ELSE IF UpdateReplaces(h.el[e].widget, w)
  THEN (IF h.el[e].parent # NoElem
        THEN LET n == h.next
                 h1 == NewElement(h, w)
             IN IF Dead(h1) THEN h1
                ELSE ReplaceChild(h1, h.el[e].parent, e, n)
        ELSE h)
  ELSE MarkNeedsBuild([h EXCEPT !.el[e].widget = w], e)

InstallAtEnd(ch, i, new) ==
  Append(SubSeq(ch, 1, i - 1) \o SubSeq(ch, i + 1, Len(ch)), new)
\* e.children[i] = new
InstallAt(ch, i, new) == [ch EXCEPT ![i] = new]

\* BaseElement.ReplaceChild (baseStatefulElement does not override it)
ReplaceChild(h, p, old, new) ==
  IF Dead(h) THEN h
  ELSE LET ch == h.el[p].children
           idxs == {i \in 1..Len(ch) : ch[i] = old}
       IN IF idxs = {} THEN h
          ELSE LET i == CHOOSE j \in idxs : \A k \in idxs : j <= k
                   h1 == Unmount(h, old)
                   h2 == IF Dead(h1) THEN h1
                         ELSE [h1 EXCEPT !.el[p].children =
                                            InstallAt(@, i, new)]
               IN MarkNeedsBuild(Mount(h2, new, p), p)

\* BaseElement.RebuildIfNeeded: promoted unchanged to baseStatefulElement,
\* so its receiver is the embedded BaseElement and e.Build() is
\* BaseElement.Build for both element types
RebuildIfNeeded(h, e) == IF h.el[e].dirty THEN BaseBuild(h, e) ELSE h

RECURSIVE LayoutPhase(_, _), LayoutChildren(_, _)
\* BaseElement.LayoutPhase
LayoutPhase(h, e) ==
  IF ~h.el[e].needsLayout THEN h
  ELSE LET h1 == IF h.el[e].renderObject
                 THEN [h EXCEPT !.lay = @ \cup {e}] ELSE h
           h2 == LayoutChildren(h1, h.el[e].children)
       IN [h2 EXCEPT !.el[e].needsLayout = FALSE]

LayoutChildren(h, s) ==
  IF s = <<>> THEN h ELSE LayoutChildren(LayoutPhase(h, Head(s)), Tail(s))

\* BaseState.SetState: run fn (which changes the State's data), then
\* s.element.MarkNeedsBuild()
SetState(h, e, m) == MarkNeedsBuild([h EXCEPT !.el[e].mode = m], e)

\* ------------------------------------------------------------------------
\* Tree helpers
\* ------------------------------------------------------------------------
RECURSIVE AncestorsOrSelf(_, _)
\* e and every element reached by following Parent()
AncestorsOrSelf(el, e) ==
  IF e = NoElem THEN {}
  ELSE {e} \cup AncestorsOrSelf(el, el[e].parent)

Allocated == {e \in ElemIds : elems[e].alloc}

Range(s) == {s[i] : i \in 1..Len(s)}

\* ------------------------------------------------------------------------
\* Actions of the reconciler: one per API call
\* ------------------------------------------------------------------------
\* pre: the target was mounted when the call was made (for ReplaceChild: old
\* was among the children; for LayoutPhase: needsLayout was set);
\* kind: for Update, whether the new widget has the type of the current one
NoCall == [op |-> "none", e |-> NoElem, w |-> "leaf", pre |-> FALSE,
           kind |-> "-"]

\* commit the heap a call produced
Commit(h, c) ==
  /\ UNCHANGED <<tvars, cvars, lvars>>
  /\ ~panicked
  /\ calls < MaxCalls
  /\ calls' = calls + 1
  /\ h.ok
  /\ elems' = h.el
  /\ nextElem' = h.next
  /\ disposeCount' = h.disp
  /\ lastUnmounted' = h.unm
  /\ everUnmounted' = everUnmounted \cup h.unm
  /\ lastLaidOut' = h.lay
  /\ hooks' = h.log
  /\ panicked' = h.panicked
  /\ call' = c

\* the application has created the root element for one of the widgets
ElemInitWith(roots) ==
  /\ \E w \in roots :
       elems = NewElement([el |-> [e \in ElemIds |-> FreshElem], next |-> 1,
                           ok |-> TRUE], w).el
  /\ nextElem = 2
  /\ calls = 0
  /\ disposeCount = [e \in ElemIds |-> 0]
  /\ lastUnmounted = {}
  /\ everUnmounted = {}
  /\ lastLaidOut = {}
  /\ hooks = <<>>
  /\ panicked = FALSE
  /\ call = NoCall

ElemInit == ElemInitWith(Widgets)

\* e.Mount(nil): the application mounts an element as a root (elements
\* below the root are mounted by Build and ReplaceChild)
MountAct(e) ==
  /\ e \in Allocated
  /\ Commit(Mount(Heap, e, NoElem),
            [NoCall EXCEPT !.op = "Mount", !.e = e, !.pre = elems[e].mounted])

UnmountAct(e) ==
  /\ e \in Allocated
  /\ Commit(Unmount(Heap, e),
            [NoCall EXCEPT !.op = "Unmount", !.e = e, !.pre = elems[e].mounted])

\* e.Build() through the Element's own method set
BuildAct(e) ==
  /\ e \in Allocated
  /\ Commit(IF elems[e].etype = "stateful" THEN StatefulBuild(Heap, e)
            ELSE BaseBuild(Heap, e),
            [NoCall EXCEPT !.op = "Build", !.e = e, !.pre = elems[e].mounted])

UpdateAct(e, w) ==
  /\ e \in Allocated
  /\ Commit(Update(Heap, e, w),
            [NoCall EXCEPT !.op = "Update", !.e = e, !.w = w,
                           !.pre = elems[e].mounted,
                           !.kind = IF GetType(elems[e].widget) = GetType(w)
                                    THEN "same" ELSE "diff"])

MarkNeedsBuildAct(e) ==
  /\ e \in Allocated
  /\ Commit(MarkNeedsBuild(Heap, e),
            [NoCall EXCEPT !.op = "MarkNeedsBuild", !.e = e, !.pre = elems[e].mounted])

MarkNeedsLayoutAct(e) ==
  /\ e \in Allocated
  /\ Commit(MarkNeedsLayout(Heap, e),
            [NoCall EXCEPT !.op = "MarkNeedsLayout", !.e = e, !.pre = elems[e].mounted])

RebuildIfNeededAct(e) ==
  /\ e \in Allocated
  /\ Commit(RebuildIfNeeded(Heap, e),
            [NoCall EXCEPT !.op = "RebuildIfNeeded", !.e = e, !.pre = elems[e].mounted])

\* p.ReplaceChild(old, NewElement(w)) called by the application
ReplaceChildAct(p, old, w) ==
  /\ {p, old} \subseteq Allocated
  /\ Commit(ReplaceChild(NewElement(Heap, w), p, old, nextElem),
            [NoCall EXCEPT !.op = "ReplaceChild", !.e = old, !.w = w,
                           !.pre = old \in Range(elems[p].children)])

LayoutPhaseAct(e) ==
  /\ e \in Allocated
  /\ Commit(LayoutPhase(Heap, e),
            [NoCall EXCEPT !.op = "LayoutPhase", !.e = e, !.pre = elems[e].needsLayout])

\* State.SetState on the State of a mounted stateful element
SetStateAct(e, m) ==
  /\ e \in Allocated
  /\ elems[e].etype = "stateful"
  /\ elems[e].mounted
  /\ elems[e].state # NoElem
  /\ m # elems[e].mode
  /\ Commit(SetState(Heap, e, m),
            [NoCall EXCEPT !.op = "SetState", !.e = e, !.pre = TRUE])

\* parent.children = append(parent.children, child); child.Mount(parent):
\* code of the package gives a mounted element a further child by hand
AdoptAct(p, w) ==
  /\ p \in Allocated
  /\ elems[p].mounted
  /\ Commit(Mount([NewElement(Heap, w) EXCEPT !.el[p].children = Append(@, nextElem)],
                  nextElem, p),
            [NoCall EXCEPT !.op = "Adopt", !.e = p, !.w = w, !.pre = TRUE])

ElemNext ==
  \/ \E e \in ElemIds : MountAct(e)
  \/ \E e \in ElemIds : UnmountAct(e)
  \/ \E e \in ElemIds : BuildAct(e)
  \/ \E e \in ElemIds, w \in UpdateWidgets : UpdateAct(e, w)
  \/ \E e \in ElemIds : MarkNeedsBuildAct(e)
  \/ \E e \in ElemIds : MarkNeedsLayoutAct(e)
  \/ \E e \in ElemIds : RebuildIfNeededAct(e)
  \/ \E p \in ElemIds, old \in ElemIds, w \in ReplaceWidgets : ReplaceChildAct(p, old, w)
  \/ \E e \in ElemIds : LayoutPhaseAct(e)
  \/ \E e \in ElemIds, m \in StateModes : SetStateAct(e, m)

\* one visit of a rebuild pass: e.RebuildIfNeeded() on a mounted element
\* that is dirty (the visit of a clean element changes nothing)
PassStep(e) ==
  /\ e \in Allocated
  /\ elems[e].mounted
  /\ elems[e].dirty
  /\ ~panicked
  /\ RebuildIfNeeded(Heap, e).ok
  /\ elems' = RebuildIfNeeded(Heap, e).el
  /\ nextElem' = RebuildIfNeeded(Heap, e).next
  /\ disposeCount' = RebuildIfNeeded(Heap, e).disp
  /\ lastUnmounted' = RebuildIfNeeded(Heap, e).unm
  /\ everUnmounted' = everUnmounted \cup RebuildIfNeeded(Heap, e).unm
  /\ lastLaidOut' = {}
  /\ hooks' = RebuildIfNeeded(Heap, e).log
  /\ panicked' = RebuildIfNeeded(Heap, e).panicked
  /\ call' = [NoCall EXCEPT !.op = "Pass", !.e = e, !.pre = TRUE]
  /\ UNCHANGED <<calls, tvars, cvars, lvars>>

\* the reconciler driven by code that also builds multi-child trees by hand
TreeNext ==
  \/ \E e \in ElemIds : MountAct(e)
  \/ \E e \in ElemIds : UnmountAct(e)
  \/ \E e \in ElemIds : BuildAct(e)
  \/ \E e \in ElemIds, w \in UpdateWidgets : UpdateAct(e, w)
  \/ \E e \in ElemIds : MarkNeedsBuildAct(e)
  \/ \E e \in ElemIds : MarkNeedsLayoutAct(e)
  \/ \E e \in ElemIds : RebuildIfNeededAct(e)
  \/ \E p \in ElemIds, old \in ElemIds, w \in ReplaceWidgets : ReplaceChildAct(p, old, w)
  \/ \E e \in ElemIds : LayoutPhaseAct(e)
  \/ \E e \in ElemIds, m \in StateModes : SetStateAct(e, m)
  \/ \E p \in ElemIds, w \in ReplaceWidgets : AdoptAct(p, w)

\* the reconciler with rebuild passes: after the (bounded) calls of the
\* application only the visits of the passes go on
PassNext ==
  \/ \E e \in ElemIds : MountAct(e)
  \/ \E e \in ElemIds : UnmountAct(e)
  \/ \E e \in ElemIds, w \in UpdateWidgets : UpdateAct(e, w)
  \/ \E e \in ElemIds : MarkNeedsBuildAct(e)
  \/ \E e \in ElemIds, m \in StateModes : SetStateAct(e, m)
  \/ \E e \in ElemIds : PassStep(e)


\* ------------------------------------------------------------------------
\* Presentation engine: Buffer and Terminal (single caller)
\* ------------------------------------------------------------------------
Point(x, y) == [X |-> x, Y |-> y]
\* the coordinates the application draws to: one row of two columns
Coords == {Point(0, 0), Point(1, 0)}
\* the size the device reports at start-up
InitialSize == [Width |-> 2, Height |-> 1]
\* the sizes resize events report: the initial one, or one column less (so
\* that Point(1, 0) lies outside the surface)
Sizes == {InitialSize, [Width |-> 1, Height |-> 1]}

\* runes drawn by the application: a letter, the blank and a combining mark
Runes == {"A", " ", "mark"}
Placeholder == "dotted-circle"      \* '◌'
Styles == {"s1", "s2"}
StyleDefault == "default"           \* tcell.StyleDefault
\* unicode.IsMark
IsMark(ch) == ch = "mark"
\* runewidth.RuneWidth
RuneWidth(ch) == IF IsMark(ch) THEN 0 ELSE 1

\* absence of a map entry (the ok == false result of a map lookup)
NoCell == [Rune |-> "none", Style |-> "none", Combining |-> <<>>, Width |-> 0]
MkCell(ch, combining, style) ==
  [Rune |-> ch, Style |-> style, Combining |-> combining, Width |-> RuneWidth(ch)]
\* what Present writes where the back buffer has no entry
BlankWrite == [Rune |-> " ", Style |-> StyleDefault, Combining |-> <<>>]

BufIds == 1..4
\* NewBuffer
NewBuffer(sz) ==
  [cells |-> [p \in Coords |-> NoCell], size |-> sz,
   cursor |-> Point(0, 0), dirty |-> FALSE]

\* Buffer.SetCell
SetCell(b, x, y, ch, combining, style) ==
  [b EXCEPT !.cells[Point(x, y)] = MkCell(ch, combining, style), !.dirty = TRUE]

\* Buffer.GetCell: the cell, NoCell when the map has no entry
GetCell(b, x, y) ==
  IF Point(x, y) \in Coords THEN b.cells[Point(x, y)] ELSE NoCell

\* Buffer.Clear
Clear(b) == [b EXCEPT !.cells = [p \in Coords |-> NoCell], !.dirty = TRUE]

\* Buffer.SetCursor
SetCursor(b, x, y) == [b EXCEPT !.cursor = Point(x, y), !.dirty = TRUE]

\* utils.EqualRunes
EqualRunes(a, b) ==
  /\ Len(a) = Len(b)
  /\ \A i \in 1..Len(a) : a[i] = b[i]

\* the active pair (Present, SwapBuffers, DrawStyledCell, HideCursor)
ActiveBack == IF usingAltScreen THEN altBackBuffer ELSE mainBackBuffer
ActiveFront == IF usingAltScreen THEN altFrontBuffer ELSE mainFrontBuffer

\* the coordinates Present scans: 0 <= x < t.size.Width, 0 <= y < t.size.Height
Surface(sz) == {p \in Coords : p.X < sz.Width /\ p.Y < sz.Height}

NoDeviceCalls ==
  [ran |-> FALSE, setContent |-> [p \in Coords |-> <<>>],
   showCursor |-> <<>>, show |-> 0]

PresentNeverSkips(back) == FALSE
\* if !back.dirty { return nil }
PresentSkips(back) == ~back.dirty

\* the "continue" test of the scan: both cells exist and are equal
CellsEqual(backCell, frontCell) ==
  /\ backCell # NoCell /\ frontCell # NoCell
  /\ backCell.Rune = frontCell.Rune
  /\ backCell.Style = frontCell.Style
  /\ EqualRunes(backCell.Combining, frontCell.Combining)

\* the SetContent calls the scan makes for one coordinate
ScanWrites(backCell, frontCell, combining) ==
  IF CellsEqual(backCell, frontCell) THEN <<>>
  ELSE IF backCell # NoCell
  THEN (IF ~combining /\ IsMark(backCell.Rune)
        THEN <<[Rune |-> Placeholder, Style |-> backCell.Style,
                Combining |-> <<backCell.Rune>>]>>
        ELSE <<[Rune |-> backCell.Rune, Style |-> backCell.Style,
                Combining |-> backCell.Combining]>>)
  ELSE <<BlankWrite>>

\* the device calls of Terminal.Present for the given pair
PresentCalls(back, front, sz, combining) ==
  IF PresentSkips(back) THEN [NoDeviceCalls EXCEPT !.ran = back.dirty]
  ELSE [ran |-> back.dirty,
        setContent |-> [p \in Coords |->
                          IF p \in Surface(sz)
                          THEN ScanWrites(back.cells[p], front.cells[p], combining)
                          ELSE <<>>],
        showCursor |-> <<back.cursor>>,
        show |-> 1]

\* NewWithScreen: the four buffers have the size the device reports;
\* unicodeMode is set when the capabilities report Unicode support
\* the values of the main front and main back buffer
MainBuffers == [front |-> buffers[mainFrontBuffer], back |-> buffers[mainBackBuffer]]

TermInitWith(unicodeModes) ==
  /\ \E sz \in {InitialSize} :
       /\ size = sz
       /\ buffers = [b \in BufIds |-> NewBuffer(sz)]
  /\ mainFrontBuffer = 1 /\ mainBackBuffer = 2
  /\ altFrontBuffer = 3 /\ altBackBuffer = 4
  /\ usingAltScreen = FALSE
  /\ unicodeMode \in unicodeModes
  /\ combiningChars = TRUE
  /\ hung = FALSE
  /\ dev = NoDeviceCalls
  /\ shown = [p \in Coords |-> NoCell]
  /\ presented = FALSE
  /\ tcall = "none"
  /\ presentsInRow = 0
  /\ tcalls = 0
  /\ mainAtEntry = MainBuffers

TermInit == TermInitWith(BOOLEAN)

\* bookkeeping common to every Terminal call
TermCall(name) ==
  /\ UNCHANGED <<evars, cvars, lvars>>
  /\ ~hung
  /\ tcalls < MaxTermCalls
  /\ tcalls' = tcalls + 1
  /\ tcall' = name
  /\ presented' = (presented \/ name = "Present")
  /\ presentsInRow' = IF name = "Present"
                      THEN (IF presentsInRow < 2 THEN presentsInRow + 1 ELSE 2)
                      ELSE 0
  /\ mainAtEntry' = IF name = "EnterAltScreen" /\ ~usingAltScreen
                    THEN MainBuffers ELSE mainAtEntry

AttachMarkAlone(prevCell, ch) == <<ch>>
\* append(prevCell.Combining, ch)
AttachMark(prevCell, ch) == Append(prevCell.Combining, ch)

\* Terminal.DrawStyledCell (DrawCell is DrawStyledCell with style mask 0)
DrawStyledCell(x, y, ch, style) ==
  /\ TermCall("DrawStyledCell")
  /\ LET back == buffers[ActiveBack]
         prevCell == GetCell(back, x - 1, y)
     IN /\ (unicodeMode /\ combiningChars /\ IsMark(ch)
            /\ prevCell # NoCell /\ prevCell.Rune # " ")
              => Len(prevCell.Combining) < MaxMarks
        /\ buffers' =
             [buffers EXCEPT ![ActiveBack] =
                IF ~combiningChars /\ IsMark(ch)
                THEN SetCell(back, x, y, Placeholder, <<ch>>, style)
                ELSE IF unicodeMode /\ combiningChars /\ IsMark(ch)
                        /\ prevCell # NoCell /\ prevCell.Rune # " "
                THEN SetCell(back, x - 1, y, prevCell.Rune,
                             AttachMark(prevCell, ch), style)
                ELSE SetCell(back, x, y, ch, <<>>, style)]
  /\ UNCHANGED <<mainFrontBuffer, mainBackBuffer, altFrontBuffer, altBackBuffer,
                 usingAltScreen, size, unicodeMode, combiningChars, hung, dev,
                 shown>>

\* Terminal.Present
Present ==
  /\ TermCall("Present")
  /\ dev' = PresentCalls(buffers[ActiveBack], buffers[ActiveFront], size,
                         combiningChars)
  /\ shown' = buffers[ActiveBack].cells
  /\ buffers' = IF PresentSkips(buffers[ActiveBack]) THEN buffers
                ELSE [buffers EXCEPT ![ActiveBack].dirty = FALSE]
  /\ UNCHANGED <<mainFrontBuffer, mainBackBuffer, altFrontBuffer, altBackBuffer,
                 usingAltScreen, size, unicodeMode, combiningChars, hung>>

\* Terminal.SwapBuffers
SwapBuffers ==
  /\ TermCall("SwapBuffers")
  /\ IF usingAltScreen
     THEN /\ altFrontBuffer' = altBackBuffer
          /\ altBackBuffer' = altFrontBuffer
          /\ UNCHANGED <<mainFrontBuffer, mainBackBuffer>>
     ELSE /\ mainFrontBuffer' = mainBackBuffer
          /\ mainBackBuffer' = mainFrontBuffer
          /\ UNCHANGED <<altFrontBuffer, altBackBuffer>>
  /\ UNCHANGED <<buffers, usingAltScreen, size, unicodeMode, combiningChars,
                 hung, dev, shown>>

\* Terminal.SetCursor: always the main back buffer
TermSetCursor(x, y) ==
  /\ TermCall("SetCursor")
  /\ buffers' = [buffers EXCEPT ![mainBackBuffer] = SetCursor(@, x, y)]
  /\ UNCHANGED <<mainFrontBuffer, mainBackBuffer, altFrontBuffer, altBackBuffer,
                 usingAltScreen, size, unicodeMode, combiningChars, hung, dev,
                 shown>>

\* Terminal.HideCursor
HideCursor ==
  /\ TermCall("HideCursor")
  /\ buffers' = [buffers EXCEPT ![ActiveBack] = SetCursor(@, -1, -1)]
  /\ UNCHANGED <<mainFrontBuffer, mainBackBuffer, altFrontBuffer, altBackBuffer,
                 usingAltScreen, size, unicodeMode, combiningChars, hung, dev,
                 shown>>

\* Terminal.EnterAltScreen.  It holds t.lock while it calls t.Present(),
\* whose first statement is t.lock.Lock(): sync.RWMutex is not reentrant,
\* so the call never returns once it has switched screens.
EnterAltScreen ==
  /\ TermCall("EnterAltScreen")
  /\ IF ~usingAltScreen
     THEN /\ usingAltScreen' = TRUE
          /\ buffers' = [buffers EXCEPT ![altFrontBuffer] = Clear(@),
                                        ![altBackBuffer] = Clear(@)]
          /\ hung' = TRUE
     ELSE UNCHANGED <<usingAltScreen, buffers, hung>>
  /\ UNCHANGED <<mainFrontBuffer, mainBackBuffer, altFrontBuffer, altBackBuffer,
                 size, unicodeMode, combiningChars, dev, shown>>

\* Terminal.ExitAltScreen: the same nested t.Present() under t.lock
ExitAltScreen ==
  /\ TermCall("ExitAltScreen")
  /\ IF usingAltScreen
     THEN /\ usingAltScreen' = FALSE
          /\ hung' = TRUE
     ELSE UNCHANGED <<usingAltScreen, hung>>
  /\ UNCHANGED <<buffers, mainFrontBuffer, mainBackBuffer, altFrontBuffer,
                 altBackBuffer, size, unicodeMode, combiningChars, dev, shown>>

\* EnableCombiningChars / DisableCombiningChars
SetCombiningChars(on) ==
  /\ TermCall("SetCombiningChars")
  /\ on # combiningChars
  /\ combiningChars' = on
  /\ UNCHANGED <<buffers, mainFrontBuffer, mainBackBuffer, altFrontBuffer,
                 altBackBuffer, usingAltScreen, size, unicodeMode, hung, dev,
                 shown>>

\* EnableUnicode / DisableUnicode
SetUnicode(on) ==
  /\ TermCall("SetUnicode")
  /\ on # unicodeMode
  /\ unicodeMode' = on
  /\ UNCHANGED <<buffers, mainFrontBuffer, mainBackBuffer, altFrontBuffer,
                 altBackBuffer, usingAltScreen, size, combiningChars, hung, dev,
                 shown>>

\* the body of the event handler for *tcell.EventResize: t.size = the new
\* size (the buffers are not resized)
ResizeEvent(sz) ==
  /\ UNCHANGED <<evars, cvars, lvars>>
  /\ ~hung
  /\ sz # size
  /\ tcalls < MaxTermCalls
  /\ tcalls' = tcalls + 1
  /\ tcall' = "Resize"
  /\ UNCHANGED <<presented, mainAtEntry>>
  /\ presentsInRow' = 0
  /\ size' = sz
  /\ UNCHANGED <<buffers, mainFrontBuffer, mainBackBuffer, altFrontBuffer,
                 altBackBuffer, usingAltScreen, unicodeMode, combiningChars,
                 hung, dev, shown>>

TermNext ==
  \/ \E p \in Coords, ch \in Runes, st \in Styles : DrawStyledCell(p.X, p.Y, ch, st)
  \/ Present
  \/ SwapBuffers
  \/ \E p \in Coords : TermSetCursor(p.X, p.Y)
  \/ HideCursor
  \/ EnterAltScreen
  \/ ExitAltScreen
  \/ \E on \in BOOLEAN : SetCombiningChars(on)
  \/ \E on \in BOOLEAN : SetUnicode(on)
  \/ \E sz \in Sizes : ResizeEvent(sz)

\* ------------------------------------------------------------------------
\* Goroutines: locks, channel and the instructions of each method
\* ------------------------------------------------------------------------
\* one goroutine per polled event (go func(ev tcell.Event) in eventLoop)
Handlers == {"h1", "h2"}
\* goroutines of the embedding application
AppThreads == {"app1", "app2"}
\* the goroutine that runs HandleEvents
Consumer == "cons"
Threads == Handlers \cup AppThreads \cup {Consumer}
NoThread == "none"

\* number of calls each application goroutine makes
MaxAppOps == 1
\* capacity of t.eventChan, make(chan Event, 100), scaled down
EventChanCap == 1

\* locks[TLock] is t.lock, locks[b] is the lock of Buffer b
TLock == 0
LockIds == {TLock} \cup BufIds
\* a sync.RWMutex: its writer and the number of read locks each goroutine holds
FreeLock == [w |-> NoThread, r |-> [t \in Threads |-> 0]]

\* the events PollEvent returns; "mouseSkipped" is a mouse event that
\* handleMouse filters out (mouse disabled, or no button of the mode)
EventKinds == {"resize", "key", "mouse", "mouseSkipped", "focus"}
\* the size an EventResize reports: both dimensions differ from InitialSize
ResizedSize == [Width |-> 1, Height |-> 2]

\* prev: the Cell a DrawStyledCell in progress got from GetCell(x-1, y)
\* m: the Terminal method the registered callback calls ("none": the
\* callback calls no Terminal method)
Idle == [op |-> "idle", ip |-> 0, b |-> 0, o |-> 0, prev |-> NoCell, m |-> "none"]
Ins(k, l, f) == [k |-> k, l |-> l, f |-> f]
Jump(k, l, f, to) == [k |-> k, l |-> l, f |-> f, to |-> to]

HandlerAcquireNothing == Ins("Nop", TLock, "")
\* t.lock.Lock() at the head of the handler goroutine
HandlerAcquire == Ins("Lock", TLock, "")

\* the body of the goroutine eventLoop starts for one event
HandlerProg(kind) ==
  <<HandlerAcquire>>
  \o (CASE kind = "resize" ->
             \* t.size = geometry.Size{Width: width, Height: height}: two words
             <<Ins("SizeW", TLock, "size"), Ins("SizeH", TLock, "size"),
               Ins("Callback", TLock, "onResize")>>
        [] kind = "focus" ->
             <<Ins("Focus", TLock, "focused"), Ins("Callback", TLock, "onFocusChange")>>
        [] kind \in {"key", "mouse"} ->
             \* t.eventChan <- event
             <<Ins("Send", TLock, "eventChan")>>
        [] OTHER -> <<>>)
  \o <<Ins("Unlock", TLock, "")>>

\* Terminal.Present on back buffer b and front buffer o
PresentProg(b, o) ==
  << Ins("Lock", TLock, ""),
     Jump("IfClean", b, "dirty", 13),      \* if !back.dirty { return nil }
     Ins("RLock", b, ""),
     Ins("RLock", o, ""),
     Ins("Scan", b, "cells"),              \* the loops over t.size, back.GetCell
     Ins("Read", o, "cells"),              \* front.GetCell
     Ins("RLock", b, ""),                  \* back.GetCursor()
     Ins("Read", b, "cursor"),
     Ins("RUnlock", b, ""),
     Ins("ClearDirty", b, "dirty"),        \* back.dirty = false
     Ins("RUnlock", o, ""),
     Ins("RUnlock", b, ""),
     Ins("Unlock", TLock, "") >>

\* Terminal.DrawStyledCell of an ordinary rune on back buffer b
DrawProg(b) ==
  << Ins("RLock", TLock, ""),
     Ins("Lock", b, ""), Ins("Write", b, "cells"), Ins("SetDirty", b, "dirty"),
     Ins("Unlock", b, ""),
     Ins("RUnlock", TLock, "") >>

\* a method called from inside another one: its jumps move with it
Shift(prog, k) ==
  [i \in 1..Len(prog) |->
     IF "to" \in DOMAIN prog[i] THEN [prog[i] EXCEPT !.to = @ + k] ELSE prog[i]]

\* the Terminal methods a registered callback calls
CallbackCalls == {"none", "Size", "DrawCell", "Present"}
\* the callbacks: OnResize and OnFocusChange are called by the goroutine of
\* the event, OnSuspend and OnResume by the caller of Suspend and Resume
EventCallbacks == {"onResize", "onFocusChange"}
SessionCallbacks == {"onSuspend", "onResume"}

\* the instructions of the callback's call of Terminal method m
CallbackProg(m, b, o) ==
  CASE m = "Size" ->
         << Ins("RLock", TLock, ""), Ins("ScreenSize", TLock, "screen"),
            Ins("RUnlock", TLock, "") >>
    [] m = "DrawCell" -> DrawProg(b)
    [] m = "Present" -> PresentProg(b, o)
    [] OTHER -> <<>>

\* t.lock.Lock() before the callback is called; defer t.lock.Unlock()
CallerHolds == <<Ins("Lock", TLock, "")>>

\* the method or event goroutine that calls callback cb, which calls m
CallbackCallerProg(cb, m, b, o) ==
  LET head ==
        CallerHolds \o
        (CASE cb = "onResize" ->
                 <<Ins("SizeW", TLock, "size"), Ins("SizeH", TLock, "size")>>
           [] cb = "onFocusChange" -> <<Ins("Focus", TLock, "focused")>>
           [] OTHER -> <<Ins("Suspended", TLock, "suspended")>>)
  IN head \o Shift(CallbackProg(m, b, o), Len(head))
          \o <<Ins("Unlock", TLock, "")>>

\* where the concurrent mark draws go: DrawStyledCell(1, 0, mark, ...), so
\* the base cell is at (x-1, y) = (0, 0)
MarkX == 1
MarkY == 0

\* Terminal.DrawStyledCell of a combining mark on back buffer b, with
\* Unicode mode and combining characters enabled
DrawMarkProg(b) ==
  << Ins("RLock", TLock, ""),
     Ins("RLock", b, ""),                  \* backBuffer.GetCell(x-1, y)
     Ins("ReadPrev", b, "cells"),
     Ins("RUnlock", b, ""),
     Jump("IfNoBase", b, "", 11),          \* exists && prevCell.Rune != ' '
     Ins("Lock", b, ""),                   \* backBuffer.SetCell(x-1, y, ...)
     Ins("WriteMark", b, "cells"),
     Ins("SetDirty", b, "dirty"),
     Ins("Unlock", b, ""),
     Jump("Goto", b, "", 15),              \* return
     Ins("Lock", b, ""),                   \* backBuffer.SetCell(x, y, ch, nil, ...)
     Ins("WritePlain", b, "cells"),
     Ins("SetDirty", b, "dirty"),
     Ins("Unlock", b, ""),
     Ins("RUnlock", TLock, "") >>

\* the methods of Buffer b (o is the argument of CopyFrom)
BufferOps == {"SetCell", "GetCell", "Clear", "Resize", "ResizeSame",
              "SetCursor", "GetCursor", "MoveCursor", "CopyFrom"}
BufferProg(op, b, o) ==
  CASE op \in {"SetCell", "Clear"} ->
         << Ins("Lock", b, ""), Ins("Write", b, "cells"), Ins("SetDirty", b, "dirty"),
            Ins("Unlock", b, "") >>
    [] op = "GetCell" ->
         << Ins("RLock", b, ""), Ins("Read", b, "cells"), Ins("RUnlock", b, "") >>
    [] op = "Resize" ->
         << Ins("Lock", b, ""), Ins("Read", b, "size"), Ins("Write", b, "cells"),
            Ins("Write", b, "size"), Ins("SetDirty", b, "dirty"), Ins("Unlock", b, "") >>
    [] op = "ResizeSame" ->          \* if b.size == size { return }
         << Ins("Lock", b, ""), Ins("Read", b, "size"), Ins("Unlock", b, "") >>
    [] op = "SetCursor" ->
         << Ins("Lock", b, ""), Ins("Write", b, "cursor"), Ins("SetDirty", b, "dirty"),
            Ins("Unlock", b, "") >>
    [] op = "GetCursor" ->
         << Ins("RLock", b, ""), Ins("Read", b, "cursor"), Ins("RUnlock", b, "") >>
    [] op = "MoveCursor" ->
         << Ins("Write", b, "cursor"), Ins("Read", b, "size"), Ins("SetDirty", b, "dirty") >>
    [] op = "CopyFrom" ->
         << Ins("Lock", b, ""), Ins("RLock", o, ""),
            Ins("Read", o, "cells"), Ins("Write", b, "cells"),
            Ins("Write", b, "size"), Ins("Write", b, "cursor"),
            Ins("CopyDirty", b, "dirty"),
            Ins("RUnlock", o, ""), Ins("Unlock", b, "") >>

\* the instructions of the method goroutine state p is running
Prog(p) ==
  CASE p.op \in EventKinds -> HandlerProg(p.op)
    [] p.op = "Present" -> PresentProg(p.b, p.o)
    [] p.op = "DrawStyledCell" -> DrawProg(p.b)
    [] p.op = "DrawMark" -> DrawMarkProg(p.b)
    [] p.op \in EventCallbacks \cup SessionCallbacks ->
         CallbackCallerProg(p.op, p.m, p.b, p.o)
    [] p.op \in BufferOps -> BufferProg(p.op, p.b, p.o)
    [] OTHER -> <<>>

Running(t) == pc[t].op \notin {"idle", "done", "HandleEvents"}
Cur(t) == Prog(pc[t])[pc[t].ip]

\* the mode in which goroutine t holds lock l
Held(t, l) ==
  IF locks[l].w = t THEN "w" ELSE IF locks[l].r[t] > 0 THEN "r" ELSE "none"

\* whether goroutine t can execute instruction ins now, or blocks
CanRun(t, ins) ==
  CASE ins.k = "Lock" ->
         locks[ins.l].w = NoThread /\ \A u \in Threads : locks[ins.l].r[u] = 0
    [] ins.k = "RLock" -> locks[ins.l].w = NoThread
    [] ins.k = "Unlock" -> locks[ins.l].w = t
    [] ins.k = "RUnlock" -> locks[ins.l].r[t] > 0
    [] ins.k = "Send" -> chanLen < EventChanCap
    [] OTHER -> TRUE

ReadKinds == {"Read", "Scan", "IfClean"}
WriteKinds == {"Write", "SetDirty", "ClearDirty", "CopyDirty"}

\* the goroutine's state after the instruction at ip - 1: the next
\* instruction, or the end of the method (a handler goroutine exits, an
\* application goroutine is free to make its next call)
After(t, ip) ==
  IF ip > Len(Prog(pc[t]))
  THEN (IF t \in Handlers THEN [Idle EXCEPT !.op = "done"] ELSE Idle)
  ELSE [pc[t] EXCEPT !.ip = ip]

\* goroutine t executes its current instruction
Step(t) ==
  /\ Running(t)
  /\ LET ins == Cur(t) IN
     /\ CanRun(t, ins)
     /\ locks' =
          CASE ins.k = "Lock" -> [locks EXCEPT ![ins.l].w = t]
            [] ins.k = "Unlock" -> [locks EXCEPT ![ins.l].w = NoThread]
            [] ins.k = "RLock" -> [locks EXCEPT ![ins.l].r[t] = @ + 1]
            [] ins.k = "RUnlock" -> [locks EXCEPT ![ins.l].r[t] = @ - 1]
            [] OTHER -> locks
     /\ chanLen' = IF ins.k = "Send" THEN chanLen + 1 ELSE chanLen
     /\ size' =
          CASE ins.k = "SizeW" -> [size EXCEPT !.Width = ResizedSize.Width]
            [] ins.k = "SizeH" -> [size EXCEPT !.Height = ResizedSize.Height]
            [] OTHER -> size
     /\ buffers' =
          CASE ins.k = "SetDirty" -> [buffers EXCEPT ![ins.l].dirty = TRUE]
            [] ins.k = "ClearDirty" -> [buffers EXCEPT ![ins.l].dirty = FALSE]
            [] ins.k = "CopyDirty" ->
                 [buffers EXCEPT ![ins.l].dirty = buffers[pc[t].o].dirty]
            [] ins.k = "WriteMark" ->
                 [buffers EXCEPT ![ins.l] =
                    SetCell(@, MarkX - 1, MarkY, pc[t].prev.Rune,
                            AttachMark(pc[t].prev, "mark"), "s1")]
            [] ins.k = "WritePlain" ->
                 [buffers EXCEPT ![ins.l] = SetCell(@, MarkX, MarkY, "mark", <<>>, "s1")]
            [] OTHER -> buffers
     /\ pc' = [pc EXCEPT ![t] =
                 IF \/ ins.k = "IfClean" /\ ~buffers[ins.l].dirty
                    \/ ins.k = "IfNoBase"
                         /\ (pc[t].prev = NoCell \/ pc[t].prev.Rune = " ")
                    \/ ins.k = "Goto"
                 THEN After(t, ins.to)
                 ELSE IF ins.k = "ReadPrev"
                 THEN [After(t, pc[t].ip + 1) EXCEPT
                         !.prev = GetCell(buffers[ins.l], MarkX - 1, MarkY)]
                 ELSE After(t, pc[t].ip + 1)]
  /\ UNCHANGED <<stopped, finalized, opsLeft>>
  /\ UNCHANGED <<mainFrontBuffer, mainBackBuffer, altFrontBuffer, altBackBuffer,
                 usingAltScreen, unicodeMode, combiningChars, hung, dev, shown,
                 presented, tcall, presentsInRow, tcalls, mainAtEntry>>
  /\ UNCHANGED <<evars, lvars>>

\* everything a scheduling step (start of a call, dispatch, shutdown) leaves alone
Quiet == UNCHANGED <<evars, tvars, locks, lvars>>

ConcInit ==
  /\ pc = [t \in Threads |-> Idle]
  /\ locks = [l \in LockIds |-> FreeLock]
  /\ chanLen = 0
  /\ stopped = FALSE
  /\ finalized = FALSE
  /\ opsLeft = [a \in AppThreads |-> MaxAppOps]

\* eventLoop, case <-ticker.C: PollEvent returns an event and a goroutine is
\* started for it (the goroutines are taken in order: which one runs an
\* event is immaterial).  The select takes any ready case and the loop may
\* be inside PollEvent when t.stopChan is closed, so this also happens after
\* the close, until t.screen.Fini() makes PollEvent return nil.
Dispatch(h, kind) ==
  /\ ~finalized
  /\ pc[h] = Idle
  /\ h = "h2" => pc["h1"] # Idle
  /\ pc' = [pc EXCEPT ![h] = [Idle EXCEPT !.op = kind, !.ip = 1]]
  /\ UNCHANGED <<chanLen, stopped, finalized, opsLeft>>
  /\ Quiet

HandlerStep(h) == Step(h)

\* Terminal.Shutdown, first statement: close(t.stopChan)
Shutdown ==
  /\ ~stopped
  /\ stopped' = TRUE
  /\ UNCHANGED <<pc, chanLen, finalized, opsLeft>>
  /\ Quiet

\* Terminal.Shutdown, second statement: t.screen.Fini()
ShutdownFini ==
  /\ stopped
  /\ ~finalized
  /\ finalized' = TRUE
  /\ UNCHANGED <<pc, chanLen, stopped, opsLeft>>
  /\ Quiet

\* an application goroutine calls Present() or DrawCell()
AppStart(a, op) ==
  /\ pc[a] = Idle
  /\ opsLeft[a] > 0
  /\ opsLeft' = [opsLeft EXCEPT ![a] = @ - 1]
  /\ pc' = [pc EXCEPT ![a] = [Idle EXCEPT !.op = op, !.ip = 1, !.b = ActiveBack,
                                          !.o = ActiveFront]]
  /\ UNCHANGED <<chanLen, stopped, finalized>>
  /\ Quiet

AppStep(a) == Step(a)

\* the application calls HandleEvents
ConsumerStart ==
  /\ pc[Consumer] = Idle
  /\ pc' = [pc EXCEPT ![Consumer] = [Idle EXCEPT !.op = "HandleEvents"]]
  /\ UNCHANGED <<chanLen, stopped, finalized, opsLeft>>
  /\ Quiet

\* HandleEvents: case event := <-t.eventChan; quit is what handler(event) returns
ConsumerReceive(quit) ==
  /\ pc[Consumer].op = "HandleEvents"
  /\ chanLen > 0
  /\ chanLen' = chanLen - 1
  /\ pc' = [pc EXCEPT ![Consumer] = IF quit THEN [Idle EXCEPT !.op = "done"] ELSE @]
  /\ UNCHANGED <<stopped, finalized, opsLeft>>
  /\ Quiet

\* HandleEvents: case <-t.stopChan: return
ConsumerStop ==
  /\ pc[Consumer].op = "HandleEvents"
  /\ stopped
  /\ pc' = [pc EXCEPT ![Consumer] = [Idle EXCEPT !.op = "done"]]
  /\ UNCHANGED <<chanLen, stopped, finalized, opsLeft>>
  /\ Quiet

ConcNext ==
  \/ \E h \in Handlers, kind \in EventKinds : Dispatch(h, kind)
  \/ \E h \in Handlers : HandlerStep(h)
  \/ Shutdown
  \/ ShutdownFini
  \/ \E a \in AppThreads, op \in {"Present", "DrawStyledCell"} : AppStart(a, op)
  \/ \E a \in AppThreads : AppStep(a)
  \/ ConsumerStart
  \/ \E quit \in BOOLEAN : ConsumerReceive(quit)
  \/ ConsumerStop

\* two application goroutines call the methods of two Buffers
BufStart(a, op, b, o) ==
  /\ pc[a] = Idle
  /\ opsLeft[a] > 0
  /\ opsLeft' = [opsLeft EXCEPT ![a] = @ - 1]
  /\ pc' = [pc EXCEPT ![a] = [Idle EXCEPT !.op = op, !.ip = 1, !.b = b, !.o = o]]
  /\ UNCHANGED <<chanLen, stopped, finalized>>
  /\ Quiet

BufStep(a) == Step(a)

BufNext ==
  \/ \E a \in AppThreads, op \in BufferOps, b \in {1, 2}, o \in {1, 2} :
       BufStart(a, op, b, o)
  \/ \E a \in AppThreads : BufStep(a)

\* the application draws the base letter before it starts the goroutines
\* that draw the marks: DrawStyledCell(0, 0, 'A', ...) run on its own
DrawBase ==
  /\ \A t \in Threads : pc[t] = Idle
  /\ \A a \in AppThreads : opsLeft[a] = MaxAppOps
  /\ GetCell(buffers[ActiveBack], MarkX - 1, MarkY) = NoCell
  /\ buffers' = [buffers EXCEPT ![ActiveBack] =
                   SetCell(@, MarkX - 1, MarkY, "A", <<>>, "s1")]
  /\ UNCHANGED <<mainFrontBuffer, mainBackBuffer, altFrontBuffer, altBackBuffer,
                 usingAltScreen, size, unicodeMode, combiningChars, hung, dev, shown,
                 presented, tcall, presentsInRow, tcalls, mainAtEntry>>
  /\ UNCHANGED <<evars, cvars, lvars>>

\* an application goroutine calls DrawStyledCell(1, 0, mark, ...)
MarkStart(a) ==
  /\ pc[a] = Idle
  /\ opsLeft[a] > 0
  /\ GetCell(buffers[ActiveBack], MarkX - 1, MarkY) # NoCell
  /\ opsLeft' = [opsLeft EXCEPT ![a] = @ - 1]
  /\ pc' = [pc EXCEPT ![a] = [Idle EXCEPT !.op = "DrawMark", !.ip = 1, !.b = ActiveBack,
                                          !.o = ActiveFront]]
  /\ UNCHANGED <<chanLen, stopped, finalized>>
  /\ Quiet

MarkStep(a) == Step(a)

MarkNext ==
  \/ DrawBase
  \/ \E a \in AppThreads : MarkStart(a)
  \/ \E a \in AppThreads : MarkStep(a)

\* eventLoop starts the goroutine of a resize or focus event while callback
\* cb is registered and calls Terminal method m
CallbackDispatch(h, cb, m) ==
  /\ pc[h] = Idle
  /\ pc' = [pc EXCEPT ![h] = [Idle EXCEPT !.op = cb, !.ip = 1, !.m = m,
                                          !.b = ActiveBack, !.o = ActiveFront]]
  /\ UNCHANGED <<chanLen, stopped, finalized, opsLeft>>
  /\ Quiet

\* an application goroutine calls Suspend() or Resume() (screen.Init
\* succeeding) while callback cb is registered and calls Terminal method m
SessionStart(a, cb, m) ==
  /\ pc[a] = Idle
  /\ opsLeft[a] > 0
  /\ opsLeft' = [opsLeft EXCEPT ![a] = @ - 1]
  /\ pc' = [pc EXCEPT ![a] = [Idle EXCEPT !.op = cb, !.ip = 1, !.m = m,
                                          !.b = ActiveBack, !.o = ActiveFront]]
  /\ UNCHANGED <<chanLen, stopped, finalized>>
  /\ Quiet

CallbackStep(t) == Step(t)

CallbackNext ==
  \/ \E h \in Handlers, cb \in EventCallbacks, m \in CallbackCalls :
       CallbackDispatch(h, cb, m)
  \/ \E a \in AppThreads, cb \in SessionCallbacks, m \in CallbackCalls :
       SessionStart(a, cb, m)
  \/ \E t \in Handlers \cup AppThreads : CallbackStep(t)

\* ------------------------------------------------------------------------
\* Constraints and render-object layout (SpecLayout)
\* ------------------------------------------------------------------------
\* largest width or height among the enumerated inputs
MaxDim == 2
Dims == 0 .. MaxDim

Size(w, h) == [Width |-> w, Height |-> h]
\* NewConstraints: stores the two sizes as given
NewConstraints(minSize, maxSize) == [MinSize |-> minSize, MaxSize |-> maxSize]

\* Go's built-in min and max on int
Min(a, b) == IF a < b THEN a ELSE b
Max(a, b) == IF a > b THEN a ELSE b

ClampIntKeeps(i, low, high) == i
\* utils.ClampInt
ClampInt(i, low, high) ==
  LET lo == IF low > high THEN high ELSE low
      hi == IF low > high THEN low ELSE high
  IN IF i < lo THEN lo ELSE IF i > hi THEN hi ELSE i

\* Constraints.Normalize
Normalize(c) ==
  [MinSize |-> Size(Min(c.MinSize.Width, c.MaxSize.Width),
                    Min(c.MinSize.Height, c.MaxSize.Height)),
   MaxSize |-> Size(Max(c.MinSize.Width, c.MaxSize.Width),
                    Max(c.MinSize.Height, c.MaxSize.Height))]

\* Constraints.WithMinSize, Constraints.WithMaxSize
WithMinSize(c, sz) == Normalize([c EXCEPT !.MinSize = sz])
WithMaxSize(c, sz) == Normalize([c EXCEPT !.MaxSize = sz])

ConstrainKeeps(c, sz) == sz
\* Constraints.Constrain
Constrain(c, sz) ==
  Size(ClampInt(sz.Width, c.MinSize.Width, c.MaxSize.Width),
       ClampInt(sz.Height, c.MinSize.Height, c.MaxSize.Height))

\* Constraints.IsSatisfiedBy
IsSatisfiedBy(c, sz) ==
  /\ sz.Width >= c.MinSize.Width /\ sz.Width <= c.MaxSize.Width
  /\ sz.Height >= c.MinSize.Height /\ sz.Height <= c.MaxSize.Height

\* Constraints.IsNormalized
IsNormalized(c) ==
  c.MinSize.Width <= c.MaxSize.Width /\ c.MinSize.Height <= c.MaxSize.Height

\* EdgeInsets and the part of WidgetStyle that Layout reads
EdgeInsets(top, right, bottom, left) ==
  [Top |-> top, Right |-> right, Bottom |-> bottom, Left |-> left]
EdgeInsetsAll(v) == EdgeInsets(v, v, v, v)
BoxStyle(padding, border) == [Padding |-> padding, BorderWidth |-> border]

HorizontalInsets(style) ==
  style.Padding.Left + style.Padding.Right
    + style.BorderWidth.Left + style.BorderWidth.Right
VerticalInsets(style) ==
  style.Padding.Top + style.Padding.Bottom
    + style.BorderWidth.Top + style.BorderWidth.Bottom

ContentBoundKeeps(v, inset) == v
\* max(0, bound - insets)
ContentBound(v, inset) == Max(0, v - inset)

\* step 2 of BaseRenderBox.Layout
ContentConstraints(c, style) ==
  [MinSize |-> Size(ContentBound(c.MinSize.Width, HorizontalInsets(style)),
                    ContentBound(c.MinSize.Height, VerticalInsets(style))),
   MaxSize |-> Size(ContentBound(c.MaxSize.Width, HorizontalInsets(style)),
                    ContentBound(c.MaxSize.Height, VerticalInsets(style)))]

\* BaseRenderObject.Layout
BaseLayout(c) == Constrain(c, c.MinSize)

\* The first child of a box: "none" (no children), "base" (a
\* BaseRenderObject), or a RenderObject whose Layout reports the MaxSize it
\* was given ("max") or a size beyond it ("over")
ChildKinds == {"none", "base", "max", "over"}
ChildLayout(kind, c) ==
  CASE kind = "base" -> BaseLayout(c)
    [] kind = "max" -> c.MaxSize
    [] kind = "over" -> Size(c.MaxSize.Width + 1, c.MaxSize.Height + 1)

\* BaseRenderBox.layoutChildren
BoxLayoutChildren(kind, c) ==
  IF kind = "none" THEN c.MinSize ELSE ChildLayout(kind, c)

\* BaseRenderBox.Layout: the size returned and the constraints the child got
BoxLayout(c, style, kind) ==
  LET cc == ContentConstraints(c, style)
      content == BoxLayoutChildren(kind, cc)
      full == Size(content.Width + HorizontalInsets(style),
                   content.Height + VerticalInsets(style))
  IN [size |-> Constrain(c, full), childConstraints |-> cc, content |-> content]

\* inputs: every pair of sizes over Dims, and those of the padded-box scenario
DimSizes == {Size(w, h) : w \in Dims, h \in Dims}
ScenarioConstraints == NewConstraints(Size(50, 50), Size(100, 100))
ConstraintInputs ==
  {NewConstraints(a, b) : a \in DimSizes, b \in DimSizes} \cup {ScenarioConstraints}
SizeInputs == DimSizes \cup {Size(MaxDim + 1, MaxDim + 1)}
ScenarioStyle == BoxStyle(EdgeInsetsAll(5), EdgeInsetsAll(0))
StyleInputs ==
  {BoxStyle(EdgeInsetsAll(0), EdgeInsetsAll(0)),
   BoxStyle(EdgeInsets(0, 1, 0, 0), EdgeInsets(1, 0, 0, 0)),
   BoxStyle(EdgeInsetsAll(1), EdgeInsetsAll(1)),
   ScenarioStyle}

NoLayoutCall ==
  [op |-> "none", c |-> NewConstraints(Size(0, 0), Size(0, 0)), arg |-> Size(0, 0),
   style |-> BoxStyle(EdgeInsetsAll(0), EdgeInsetsAll(0)), child |-> "none",
   size |-> Size(0, 0), outc |-> NewConstraints(Size(0, 0), Size(0, 0)),
   childConstraints |-> NewConstraints(Size(0, 0), Size(0, 0))]

LayoutInit == lcall = NoLayoutCall

\* Every operation is a pure function: one call per behaviour, each call
\* recording its inputs and results.
ConstrainAct(c, s) ==
  /\ lcall.op = "none"
  /\ lcall' = [NoLayoutCall EXCEPT !.op = "Constrain", !.c = c, !.arg = s,
                                   !.size = Constrain(c, s)]
  /\ UNCHANGED <<evars, tvars, cvars, bvars, svars, xvars, rvars>>

NormalizeAct(c) ==
  /\ lcall.op = "none"
  /\ lcall' = [NoLayoutCall EXCEPT !.op = "Normalize", !.c = c, !.outc = Normalize(c)]
  /\ UNCHANGED <<evars, tvars, cvars, bvars, svars, xvars, rvars>>

WithMinSizeAct(c, s) ==
  /\ lcall.op = "none"
  /\ lcall' = [NoLayoutCall EXCEPT !.op = "WithMinSize", !.c = c, !.arg = s,
                                   !.outc = WithMinSize(c, s)]
  /\ UNCHANGED <<evars, tvars, cvars, bvars, svars, xvars, rvars>>

WithMaxSizeAct(c, s) ==
  /\ lcall.op = "none"
  /\ lcall' = [NoLayoutCall EXCEPT !.op = "WithMaxSize", !.c = c, !.arg = s,
                                   !.outc = WithMaxSize(c, s)]
  /\ UNCHANGED <<evars, tvars, cvars, bvars, svars, xvars, rvars>>

BaseLayoutAct(c) ==
  /\ lcall.op = "none"
  /\ lcall' = [NoLayoutCall EXCEPT !.op = "BaseLayout", !.c = c, !.size = BaseLayout(c)]
  /\ UNCHANGED <<evars, tvars, cvars, bvars, svars, xvars, rvars>>

BoxLayoutAct(c, style, kind) ==
  /\ lcall.op = "none"
  /\ lcall' = [NoLayoutCall EXCEPT !.op = "BoxLayout", !.c = c, !.style = style,
                                   !.child = kind,
                                   !.size = BoxLayout(c, style, kind).size,
                                   !.childConstraints =
                                      BoxLayout(c, style, kind).childConstraints]
  /\ UNCHANGED <<evars, tvars, cvars, bvars, svars, xvars, rvars>>

LayoutNext ==
  \/ \E c \in ConstraintInputs, s \in SizeInputs : ConstrainAct(c, s)
  \/ \E c \in ConstraintInputs : NormalizeAct(c)
  \/ \E c \in ConstraintInputs, s \in SizeInputs : WithMinSizeAct(c, s)
  \/ \E c \in ConstraintInputs, s \in SizeInputs : WithMaxSizeAct(c, s)
  \/ \E c \in ConstraintInputs : BaseLayoutAct(c)
  \/ \E c \in ConstraintInputs, style \in StyleInputs, kind \in ChildKinds :
       BoxLayoutAct(c, style, kind)

\* ------------------------------------------------------------------------
\* Buffer as a heap object: two Buffers and the maps their cells fields
\* refer to (single caller)
\* ------------------------------------------------------------------------
\* Buffer calls per behaviour
MaxBufCalls == 3
BufNames == {"a", "b"}
NoBuf == "none"
\* map identities: one per Buffer and one that make() can hand out
MapIds == 1..3
\* the keys a cell map may hold: the drawn coordinates and one left of column 0
BufCoords == Coords \cup {Point(-1, 0)}
\* the sizes a Buffer is given: those of the surface, and the empty one
BufSizes == Sizes \cup {[Width |-> 0, Height |-> 0]}
\* make(map[geometry.Point]Cell)
EmptyMap == [p \in BufCoords |-> NoCell]
\* what the caller writes with SetCell: rune, combining slice and style.  A
\* Cell keeps the slice it was given; no Buffer method writes an element of
\* a stored slice, so the slice is modelled by its contents.
WriteInputs ==
  {[ch |-> "A", combining |-> <<>>, style |-> "s1"],
   [ch |-> " ", combining |-> <<"mark">>, style |-> StyleDefault]}
\* cursor positions given to SetCursor: inside and outside every size
CursorInputs == {Point(0, 0), Point(1, 0), Point(2, 1)}
\* deltas given to MoveCursor
Deltas == {-10, 1, 100}

\* the two Buffers and the heap of maps, as one value
HeapNow == [bufs |-> bufs, maps |-> maps]
\* the map a make() call returns: one no Buffer refers to
FreshMap(hp) == CHOOSE m \in MapIds : \A n \in BufNames : hp.bufs[n].cells # m
\* maps no Buffer refers to any more are garbage
Swept(hp) ==
  [hp EXCEPT !.maps = [m \in MapIds |->
                         IF \E n \in BufNames : hp.bufs[n].cells = m
                         THEN hp.maps[m] ELSE EmptyMap]]

\* Buffer.SetCell
BufferSetCell(hp, n, x, y, ch, combining, style) ==
  [hp EXCEPT !.maps[hp.bufs[n].cells][Point(x, y)] = MkCell(ch, combining, style),
             !.bufs[n].dirty = TRUE]

\* Buffer.GetCell
BufferGetCell(hp, n, x, y) ==
  IF Point(x, y) \in BufCoords THEN hp.maps[hp.bufs[n].cells][Point(x, y)] ELSE NoCell

\* Buffer.Clear
BufferClear(hp, n) ==
  LET m == FreshMap(hp)
  IN [hp EXCEPT !.maps[m] = EmptyMap, !.bufs[n].cells = m, !.bufs[n].dirty = TRUE]

\* Buffer.Resize
BufferResize(hp, n, sz) ==
  IF hp.bufs[n].size = sz THEN hp
  ELSE LET m == FreshMap(hp)
           old == hp.maps[hp.bufs[n].cells]
       IN [hp EXCEPT !.maps[m] = [p \in BufCoords |->
                                    IF p.X < sz.Width /\ p.Y < sz.Height
                                    THEN old[p] ELSE NoCell],
                     !.bufs[n].cells = m,
                     !.bufs[n].size = sz,
                     !.bufs[n].dirty = TRUE]

\* Buffer.SetCursor
BufferSetCursor(hp, n, x, y) ==
  [hp EXCEPT !.bufs[n].cursor = Point(x, y), !.bufs[n].dirty = TRUE]

\* Buffer.GetCursor
BufferGetCursor(hp, n) == hp.bufs[n].cursor

BufferMoveCursorUnclamped(hp, n, dx, dy) ==
  [hp EXCEPT !.bufs[n].cursor = Point(hp.bufs[n].cursor.X + dx, hp.bufs[n].cursor.Y + dy),
             !.bufs[n].dirty = TRUE]
\* Buffer.MoveCursor: add the delta, then the four clamps in the code's order
BufferMoveCursor(hp, n, dx, dy) ==
  LET b == hp.bufs[n]
      x0 == b.cursor.X + dx
      y0 == b.cursor.Y + dy
      x1 == IF x0 < 0 THEN 0 ELSE x0
      y1 == IF y0 < 0 THEN 0 ELSE y0
      x2 == IF x1 >= b.size.Width THEN b.size.Width - 1 ELSE x1
      y2 == IF y1 >= b.size.Height THEN b.size.Height - 1 ELSE y1
  IN [hp EXCEPT !.bufs[n].cursor = Point(x2, y2), !.bufs[n].dirty = TRUE]

CopyFromShares(hp, dst, src) ==
  [hp EXCEPT !.bufs[dst] = hp.bufs[src]]
\* Buffer.CopyFrom (dst and src distinct): a new map filled with src's
\* entries, then size, cursor and dirty copied
CopyFrom(hp, dst, src) ==
  LET m == FreshMap(hp)
  IN [hp EXCEPT !.maps[m] = hp.maps[hp.bufs[src].cells],
                !.bufs[dst] = [cells |-> m,
                               size |-> hp.bufs[src].size,
                               cursor |-> hp.bufs[src].cursor,
                               dirty |-> hp.bufs[src].dirty]]

\* cells and cursor of a Buffer, as GetCell and GetCursor report them
Contents(n) == [cells |-> maps[bufs[n].cells], cursor |-> bufs[n].cursor]

NoCopy == [dst |-> NoBuf, src |-> NoBuf, read |-> [cells |-> EmptyMap, cursor |-> Point(0, 0)]]
NoBufCall == [op |-> "none", buf |-> NoBuf, arg |-> Point(0, 0)]

HeapInit ==
  /\ bufs = [n \in BufNames |->
               [cells |-> IF n = "a" THEN 1 ELSE 2, size |-> InitialSize,
                cursor |-> Point(0, 0), dirty |-> FALSE]]
  /\ maps = [m \in MapIds |-> EmptyMap]
  /\ atCopy = NoCopy
  /\ bcall = NoBufCall
  /\ bcalls = 0
  /\ blocked = FALSE

\* no call starts while the caller is blocked
CanCall == ~blocked /\ bcalls < MaxBufCalls

SetCellAct(n, p, w) ==
  /\ CanCall
  /\ LET r == Swept(BufferSetCell(HeapNow, n, p.X, p.Y, w.ch, w.combining, w.style))
     IN bufs' = r.bufs /\ maps' = r.maps
  /\ bcall' = [op |-> "SetCell", buf |-> n, arg |-> p]
  /\ bcalls' = bcalls + 1
  /\ UNCHANGED <<evars, tvars, cvars, svars, xvars, rvars, lcall, atCopy, blocked>>

ClearAct(n) ==
  /\ CanCall
  /\ LET r == Swept(BufferClear(HeapNow, n))
     IN bufs' = r.bufs /\ maps' = r.maps
  /\ bcall' = [op |-> "Clear", buf |-> n, arg |-> Point(0, 0)]
  /\ bcalls' = bcalls + 1
  /\ UNCHANGED <<evars, tvars, cvars, svars, xvars, rvars, lcall, atCopy, blocked>>

ResizeAct(n, sz) ==
  /\ CanCall
  /\ LET r == Swept(BufferResize(HeapNow, n, sz))
     IN bufs' = r.bufs /\ maps' = r.maps
  /\ bcall' = [op |-> "Resize", buf |-> n, arg |-> Point(sz.Width, sz.Height)]
  /\ bcalls' = bcalls + 1
  /\ UNCHANGED <<evars, tvars, cvars, svars, xvars, rvars, lcall, atCopy, blocked>>

SetCursorAct(n, p) ==
  /\ CanCall
  /\ LET r == Swept(BufferSetCursor(HeapNow, n, p.X, p.Y))
     IN bufs' = r.bufs /\ maps' = r.maps
  /\ bcall' = [op |-> "SetCursor", buf |-> n, arg |-> p]
  /\ bcalls' = bcalls + 1
  /\ UNCHANGED <<evars, tvars, cvars, svars, xvars, rvars, lcall, atCopy, blocked>>

MoveCursorAct(n, dx, dy) ==
  /\ CanCall
  /\ LET r == Swept(BufferMoveCursor(HeapNow, n, dx, dy))
     IN bufs' = r.bufs /\ maps' = r.maps
  /\ bcall' = [op |-> "MoveCursor", buf |-> n, arg |-> Point(dx, dy)]
  /\ bcalls' = bcalls + 1
  /\ UNCHANGED <<evars, tvars, cvars, svars, xvars, rvars, lcall, atCopy, blocked>>

\* dst.CopyFrom(src).  With dst and src the same Buffer the caller takes
\* b.lock.Lock() and then blocks in other.lock.RLock() on the same mutex.
CopyFromAct(dst, src) ==
  /\ CanCall
  /\ IF dst = src
     THEN /\ blocked' = TRUE
          /\ UNCHANGED <<bufs, maps, atCopy>>
     ELSE /\ LET r == Swept(CopyFrom(HeapNow, dst, src))
             IN bufs' = r.bufs /\ maps' = r.maps
          /\ atCopy' = [dst |-> dst, src |-> src, read |-> Contents(src)]
          /\ UNCHANGED blocked
  /\ bcall' = [op |-> "CopyFrom", buf |-> dst, arg |-> Point(0, 0)]
  /\ bcalls' = bcalls + 1
  /\ UNCHANGED <<evars, tvars, cvars, svars, xvars, rvars, lcall>>

BufferNext ==
  \/ \E n \in BufNames, p \in BufCoords, w \in WriteInputs : SetCellAct(n, p, w)
  \/ \E n \in BufNames : ClearAct(n)
  \/ \E n \in BufNames, sz \in BufSizes : ResizeAct(n, sz)
  \/ \E n \in BufNames, p \in CursorInputs : SetCursorAct(n, p)
  \/ \E n \in BufNames, dx \in Deltas, dy \in Deltas : MoveCursorAct(n, dx, dy)
  \/ \E dst \in BufNames, src \in BufNames : CopyFromAct(dst, src)

\* ------------------------------------------------------------------------
\* Suspension and clipboard of the Terminal (single caller)
\* ------------------------------------------------------------------------
\* Suspend, Resume and clipboard calls per behaviour
MaxSessionCalls == 3
\* clipboard contents: strings over a letter and the blank
ClipContents == {<<>>, <<"x">>, <<"y">>, <<" ", "x">>}
\* strings.TrimSpace
RECURSIVE TrimLeft(_)
TrimLeft(str) ==
  IF str # <<>> /\ Head(str) = " " THEN TrimLeft(Tail(str)) ELSE str
RECURSIVE TrimRight(_)
TrimRight(str) ==
  IF str # <<>> /\ str[Len(str)] = " "
  THEN TrimRight(SubSeq(str, 1, Len(str) - 1)) ELSE str
TrimSpace(str) == TrimRight(TrimLeft(str))

\* the provider a clipboard call works with: a nil field becomes a SystemClipboard
ProviderInUse == IF clipboardProvider = "nil" THEN "system" ELSE clipboardProvider

NoSessionCall == [op |-> "none", arg |-> <<>>, out |-> <<>>, err |-> FALSE]

SessionInit ==
  /\ suspended = FALSE
  /\ clipboardProvider = "nil"
  /\ systemClipboard = <<>>
  /\ fallbackContent = <<>>
  /\ scall = NoSessionCall
  /\ scalls = 0

\* Terminal.Suspend (no callback registered)
Suspend ==
  /\ scalls < MaxSessionCalls
  /\ suspended' = TRUE
  /\ scall' = [NoSessionCall EXCEPT !.op = "Suspend"]
  /\ scalls' = scalls + 1
  /\ UNCHANGED <<clipboardProvider, systemClipboard, fallbackContent>>
  /\ UNCHANGED <<evars, tvars, cvars, lcall, bvars, xvars, rvars>>

\* Terminal.Resume (no callback registered); initFails: t.screen.Init()
\* returns an error
Resume(initFails) ==
  /\ scalls < MaxSessionCalls
  /\ suspended' = IF initFails THEN suspended ELSE FALSE
  /\ scall' = [NoSessionCall EXCEPT !.op = "Resume", !.err = initFails]
  /\ scalls' = scalls + 1
  /\ UNCHANGED <<clipboardProvider, systemClipboard, fallbackContent>>
  /\ UNCHANGED <<evars, tvars, cvars, lcall, bvars, xvars, rvars>>

\* Terminal.SetClipboard; setFails: SystemClipboard.Set returns an error
\* (FallbackClipboard.Set never does)
SetClipboard(c, setFails) ==
  /\ scalls < MaxSessionCalls
  /\ setFails => ProviderInUse = "system"
  /\ IF ProviderInUse = "system"
     THEN IF setFails
          THEN /\ clipboardProvider' = "fallback"
               /\ fallbackContent' = c
               /\ UNCHANGED systemClipboard
          ELSE /\ clipboardProvider' = "system"
               /\ systemClipboard' = c
               /\ UNCHANGED fallbackContent
     ELSE /\ fallbackContent' = c
          /\ UNCHANGED <<clipboardProvider, systemClipboard>>
  /\ scall' = [NoSessionCall EXCEPT !.op = "SetClipboard", !.arg = c]
  /\ scalls' = scalls + 1
  /\ UNCHANGED suspended
  /\ UNCHANGED <<evars, tvars, cvars, lcall, bvars, xvars, rvars>>

\* Terminal.GetClipboard; getFails: SystemClipboard.Get returns an error
\* (FallbackClipboard.Get never does)
GetClipboard(getFails) ==
  /\ scalls < MaxSessionCalls
  /\ getFails => ProviderInUse = "system"
  /\ IF ProviderInUse = "system"
     THEN IF getFails
          THEN /\ clipboardProvider' = "fallback"
               /\ fallbackContent' = <<>>
               /\ scall' = [NoSessionCall EXCEPT !.op = "GetClipboard", !.out = <<>>]
          ELSE /\ clipboardProvider' = "system"
               /\ scall' = [NoSessionCall EXCEPT !.op = "GetClipboard",
                                                 !.out = TrimSpace(systemClipboard)]
               /\ UNCHANGED fallbackContent
     ELSE /\ scall' = [NoSessionCall EXCEPT !.op = "GetClipboard",
                                            !.out = fallbackContent]
          /\ UNCHANGED <<clipboardProvider, fallbackContent>>
  /\ scalls' = scalls + 1
  /\ UNCHANGED <<suspended, systemClipboard>>
  /\ UNCHANGED <<evars, tvars, cvars, lcall, bvars, xvars, rvars>>

SessionNext ==
  \/ Suspend
  \/ \E initFails \in BOOLEAN : Resume(initFails)
  \/ \E c \in ClipContents, setFails \in BOOLEAN : SetClipboard(c, setFails)
  \/ \E getFails \in BOOLEAN : GetClipboard(getFails)

\* ------------------------------------------------------------------------
\* Render context over the Terminal (single caller)
\* ------------------------------------------------------------------------
\* render-context calls per behaviour
MaxCtxCalls == 3
\* geometry.NewRect
NewRect(x, y, width, height) == [Min |-> Point(x, y), Max |-> Point(x + width, y + height)]
\* clip rects pushed by painters: part of the surface, and more than the surface
ClipInputs == {NewRect(0, 0, 1, 1), NewRect(0, 0, 4, 2)}
\* offsets pushed by painters
OffsetInputs == {Point(1, 0), Point(0, 1), Point(2, 0)}
\* points painters draw at
DrawInputs == {Point(x, 0) : x \in -1..2}

\* TerminalContext.IsInBounds: the point as given, against the Terminal's size
IsInBounds(x, y) == x >= 0 /\ x < size.Width /\ y >= 0 /\ y < size.Height

\* BaseRenderContext.IsInClipRect: the point moved by the offset, against
\* the innermost clip rect
IsInClipRect(x, y) ==
  \/ clipRect = <<>>
  \/ LET r == Head(clipRect)
     IN /\ x + offset.X >= r.Min.X /\ x + offset.X < r.Max.X
        /\ y + offset.Y >= r.Min.Y /\ y + offset.Y < r.Max.Y

\* TerminalContext.TransformPoint
TransformPoint(x, y) == Point(x + offset.X, y + offset.Y)

\* the guard of TerminalContext.DrawCell and DrawStyledCell
ForwardsDraw(x, y) == IsInBounds(x, y) /\ IsInClipRect(x, y)

NoCtxCall == [op |-> "none", at |-> Point(0, 0), forwarded |-> FALSE, to |-> Point(0, 0)]

\* NewTerminalContext: the clip rect of the whole surface is pushed
ContextInit ==
  /\ clipRect = <<NewRect(0, 0, InitialSize.Width, InitialSize.Height)>>
  /\ offset = Point(0, 0)
  /\ pushed = <<>>
  /\ xcall = NoCtxCall
  /\ xcalls = 0

PushClipRect(r) ==
  /\ xcalls < MaxCtxCalls
  /\ clipRect' = <<r>> \o clipRect
  /\ xcall' = [NoCtxCall EXCEPT !.op = "PushClipRect"]
  /\ xcalls' = xcalls + 1
  /\ UNCHANGED <<offset, pushed>>
  /\ UNCHANGED <<evars, tvars, cvars, lcall, bvars, svars, rvars>>

PopClipRect ==
  /\ xcalls < MaxCtxCalls
  /\ clipRect' = IF clipRect # <<>> THEN Tail(clipRect) ELSE clipRect
  /\ xcall' = [NoCtxCall EXCEPT !.op = "PopClipRect"]
  /\ xcalls' = xcalls + 1
  /\ UNCHANGED <<offset, pushed>>
  /\ UNCHANGED <<evars, tvars, cvars, lcall, bvars, svars, rvars>>

PushOffset(o) ==
  /\ xcalls < MaxCtxCalls
  /\ offset' = Point(offset.X + o.X, offset.Y + o.Y)
  /\ pushed' = Append(pushed, offset)
  /\ xcall' = [NoCtxCall EXCEPT !.op = "PushOffset", !.at = o]
  /\ xcalls' = xcalls + 1
  /\ UNCHANGED clipRect
  /\ UNCHANGED <<evars, tvars, cvars, lcall, bvars, svars, rvars>>

\* BaseRenderContext.PopOffset: a non-zero offset becomes the zero point
PopOffset ==
  /\ xcalls < MaxCtxCalls
  /\ offset' = IF offset.X # 0 \/ offset.Y # 0 THEN Point(0, 0) ELSE offset
  /\ pushed' = IF pushed # <<>> THEN SubSeq(pushed, 1, Len(pushed) - 1) ELSE pushed
  /\ xcall' = [NoCtxCall EXCEPT !.op = "PopOffset"]
  /\ xcalls' = xcalls + 1
  /\ UNCHANGED clipRect
  /\ UNCHANGED <<evars, tvars, cvars, lcall, bvars, svars, rvars>>

\* TerminalContext.DrawCell: the call it makes on the Terminal, if any
CtxDrawCell(p) ==
  /\ xcalls < MaxCtxCalls
  /\ xcall' = [op |-> "DrawCell", at |-> p,
               forwarded |-> ForwardsDraw(p.X, p.Y),
               to |-> IF ForwardsDraw(p.X, p.Y) THEN TransformPoint(p.X, p.Y)
                      ELSE Point(0, 0)]
  /\ xcalls' = xcalls + 1
  /\ UNCHANGED <<clipRect, offset, pushed>>
  /\ UNCHANGED <<evars, tvars, cvars, lcall, bvars, svars, rvars>>

\* TerminalContext.DrawStyledCell: the call it makes on the Terminal, if any
CtxDrawStyledCell(p) ==
  /\ xcalls < MaxCtxCalls
  /\ xcall' = [op |-> "DrawStyledCell", at |-> p,
               forwarded |-> ForwardsDraw(p.X, p.Y),
               to |-> IF ForwardsDraw(p.X, p.Y) THEN TransformPoint(p.X, p.Y)
                      ELSE Point(0, 0)]
  /\ xcalls' = xcalls + 1
  /\ UNCHANGED <<clipRect, offset, pushed>>
  /\ UNCHANGED <<evars, tvars, cvars, lcall, bvars, svars, rvars>>

ContextNext ==
  \/ \E r \in ClipInputs : PushClipRect(r)
  \/ PopClipRect
  \/ \E o \in OffsetInputs : PushOffset(o)
  \/ PopOffset
  \/ \E p \in DrawInputs : CtxDrawCell(p)
  \/ \E p \in DrawInputs : CtxDrawStyledCell(p)

\* ------------------------------------------------------------------------
\* Render objects: parent references and children (single caller)
\* ------------------------------------------------------------------------
\* child-management calls per behaviour
MaxRenderCalls == 3
\* the render objects: two *BaseRenderObject and, between them, a
\* *BaseRenderBox (which embeds a BaseRenderObject)
RenderIds == 1..3
RenderType(r) == IF r = 2 THEN "BaseRenderBox" ELSE "BaseRenderObject"
\* a RenderObject interface value: the object and its dynamic type
Ref(r) == [id |-> r, type |-> RenderType(r)]
\* the nil RenderObject
NilRef == [id |-> 0, type |-> "nil"]
\* the receiver inside a BaseRenderObject method: the (embedded)
\* *BaseRenderObject of the object the method was called on
Embedded(r) == [id |-> r, type |-> "BaseRenderObject"]
\* child.(*BaseRenderObject)
IsBase(c) == RenderType(c) = "BaseRenderObject"

\* append(s[:i], s[i+1:]...)
RemoveAt(s, i) == SubSeq(s, 1, i - 1) \o SubSeq(s, i + 1, Len(s))
\* the index of the first occurrence of c in s, 0 if there is none
IndexOf(s, c) ==
  IF \E i \in 1..Len(s) : s[i] = c
  THEN CHOOSE i \in 1..Len(s) : s[i] = c /\ \A j \in 1..(i - 1) : s[j] # c
  ELSE 0

NoRenderCall == [op |-> "none", r |-> 0, c |-> 0, detached |-> {}]

\* NewBaseRenderObject / NewBaseRenderBox
RenderInit ==
  /\ robjs = [r \in RenderIds |-> [parent |-> NilRef, children |-> <<>>]]
  /\ rcall = NoRenderCall
  /\ rcalls = 0

\* BaseRenderObject.AppendChild
AppendChild(r, c) ==
  /\ rcalls < MaxRenderCalls
  /\ robjs' = [robjs EXCEPT
                 ![c].parent = IF IsBase(c) THEN Embedded(r) ELSE @,
                 ![r].children = Append(@, c)]
  /\ rcall' = [NoRenderCall EXCEPT !.op = "AppendChild", !.r = r, !.c = c]
  /\ rcalls' = rcalls + 1
  /\ UNCHANGED <<evars, tvars, cvars, lcall, bvars, svars, xvars>>

\* BaseRenderObject.RemoveChild
RemoveChild(r, c) ==
  /\ rcalls < MaxRenderCalls
  /\ LET i == IndexOf(robjs[r].children, c)
     IN /\ robjs' = IF i = 0 THEN robjs
                    ELSE [robjs EXCEPT
                            ![c].parent = IF IsBase(c) THEN NilRef ELSE @,
                            ![r].children = RemoveAt(@, i)]
        /\ rcall' = [NoRenderCall EXCEPT !.op = "RemoveChild", !.r = r, !.c = c,
                                         !.detached = IF i = 0 THEN {} ELSE {c}]
  /\ rcalls' = rcalls + 1
  /\ UNCHANGED <<evars, tvars, cvars, lcall, bvars, svars, xvars>>

\* BaseRenderObject.ClearChildren
ClearChildren(r) ==
  /\ rcalls < MaxRenderCalls
  /\ LET cs == {robjs[r].children[i] : i \in 1..Len(robjs[r].children)}
     IN /\ robjs' = [q \in RenderIds |->
                       [parent |-> IF q \in cs /\ IsBase(q) THEN NilRef
                                   ELSE robjs[q].parent,
                        children |-> IF q = r THEN <<>> ELSE robjs[q].children]]
        /\ rcall' = [NoRenderCall EXCEPT !.op = "ClearChildren", !.r = r,
                                         !.detached = cs]
  /\ rcalls' = rcalls + 1
  /\ UNCHANGED <<evars, tvars, cvars, lcall, bvars, svars, xvars>>

\* a render object is not made its own child
RenderNext ==
  \/ \E r \in RenderIds : \E c \in RenderIds \ {r} : AppendChild(r, c)
  \/ \E r \in RenderIds : \E c \in RenderIds \ {r} : RemoveChild(r, c)
  \/ \E r \in RenderIds : ClearChildren(r)

\* ------------------------------------------------------------------------
\* Specifications
\* ------------------------------------------------------------------------
InitTerm == ElemInitWith({"leaf"}) /\ TermInit /\ ConcInit /\ LayoutInit
            /\ HeapInit /\ SessionInit /\ ContextInit /\ RenderInit
SpecTerm == InitTerm /\ [][TermNext]_vars

InitElem == ElemInit /\ TermInitWith({FALSE}) /\ ConcInit /\ LayoutInit
            /\ HeapInit /\ SessionInit /\ ContextInit /\ RenderInit
SpecElem == InitElem /\ [][ElemNext]_vars

SpecTree == InitElem /\ [][TreeNext]_vars

InitPass == ElemInitWith(Widgets \cup {"wrap"}) /\ TermInitWith({FALSE}) /\ ConcInit
            /\ LayoutInit /\ HeapInit /\ SessionInit /\ ContextInit /\ RenderInit
\* a rebuild pass visits every element, so in repeated passes a dirty
\* element is visited again and again
FairSpecPass ==
  /\ InitPass
  /\ [][PassNext]_vars
  /\ \A e \in ElemIds : WF_vars(PassStep(e))

InitConc == ElemInitWith({"leaf"}) /\ TermInitWith({FALSE}) /\ ConcInit /\ LayoutInit
            /\ HeapInit /\ SessionInit /\ ContextInit /\ RenderInit
SpecConc == InitConc /\ [][ConcNext]_vars

\* Go schedules every runnable goroutine; a goroutine waiting for a mutex
\* that is released again and again gets it (sync's starvation mode)
FairSpecConc ==
  /\ SpecConc
  /\ \A h \in Handlers : SF_vars(HandlerStep(h))
  /\ WF_vars(ShutdownFini)
  /\ \A a \in AppThreads : SF_vars(AppStep(a))
  /\ WF_vars(ConsumerStart)
  /\ WF_vars(\E quit \in BOOLEAN : ConsumerReceive(quit))
  /\ WF_vars(ConsumerStop)

SpecBuf == InitConc /\ [][BufNext]_vars

InitMarks == ElemInitWith({"leaf"}) /\ TermInitWith({TRUE}) /\ ConcInit /\ LayoutInit
             /\ HeapInit /\ SessionInit /\ ContextInit /\ RenderInit
SpecMarks == InitMarks /\ [][MarkNext]_vars

SpecCallback == InitConc /\ [][CallbackNext]_vars

SpecLayout == InitConc /\ [][LayoutNext]_vars

SpecBuffer == InitConc /\ [][BufferNext]_vars

SpecSession == InitConc /\ [][SessionNext]_vars

SpecContext == InitConc /\ [][ContextNext]_vars

SpecRender == InitConc /\ [][RenderNext]_vars

\* ------------------------------------------------------------------------
\* Claims about the reconciler (checked under SpecElem)
\* ------------------------------------------------------------------------

C2_UpdateDifferentKindReplaces ==
  [][\A e \in ElemIds :
       (call'.op = "Update" /\ call'.e = e /\ call'.kind = "diff"
        /\ elems[e].mounted)
       => /\ ~elems'[e].mounted
          /\ e \in lastUnmounted'
          /\ \E n \in ElemIds :
               /\ ~elems[n].alloc /\ elems'[n].alloc
               /\ elems'[n].mounted
               /\ elems'[n].widget = call'.w
               /\ elems'[n].parent = elems[e].parent
               /\ \A q \in ElemIds :
                    \A i \in 1..Len(elems[q].children) :
                       elems[q].children[i] = e => elems'[q].children[i] = n]_vars

\* C3: after MarkNeedsBuild (MarkNeedsLayout) on a mounted element, dirty
\* (needsLayout) is set on it and on every ancestor up to the root.
C3_MarkPropagatesToRoot ==
  /\ (call.op = "MarkNeedsBuild" /\ call.pre)
        => \A a \in AncestorsOrSelf(elems, call.e) : elems[a].dirty
  /\ (call.op = "MarkNeedsLayout" /\ call.pre)
        => \A a \in AncestorsOrSelf(elems, call.e) : elems[a].needsLayout

\* MarkNeedsBuild has run on a mounted element two levels below the root
C3_Witness ==
  /\ call.op = "MarkNeedsBuild" /\ call.pre
  /\ Cardinality(AncestorsOrSelf(elems, call.e)) >= 3
  /\ \A a \in AncestorsOrSelf(elems, call.e) : elems[a].mounted

\* C4: the State of a stateful element is disposed at most once; Dispose
\* runs only in a call that takes its element from mounted to unmounted
\* (its Unmount), and every such Unmount disposes it.
C4_DisposeOnceAtUnmount ==
  /\ [](\A e \in ElemIds : disposeCount[e] <= 1)
  /\ [][\A e \in ElemIds :
          disposeCount'[e] # disposeCount[e]
          => /\ elems[e].mounted /\ ~elems'[e].mounted
             /\ e \in lastUnmounted']_vars
  /\ [][\A e \in ElemIds :
          (elems[e].etype = "stateful" /\ elems[e].mounted /\ ~elems'[e].mounted)
          => disposeCount'[e] = disposeCount[e] + 1]_vars

\* Unmount of a mounted element has disposed the State of a stateful
\* element below it
C4_Witness ==
  /\ call.op = "Unmount" /\ call.pre
  /\ \E e \in ElemIds :
       /\ e # call.e
       /\ elems[e].etype = "stateful"
       /\ e \in lastUnmounted
       /\ disposeCount[e] = 1

\* ------------------------------------------------------------------------
\* Claims about the presentation engine (checked under SpecTerm)
\* ------------------------------------------------------------------------

\* C5 (as claimed): in every Present() after the first, a coordinate of the
\* surface whose cell is the one the previous Present() saw gets no
\* SetContent, and a coordinate whose cell changed gets exactly one.
C5_DiffMinimal ==
  [][(tcall' = "Present" /\ presented)
     => \A p \in Surface(size) :
          /\ buffers[ActiveBack].cells[p] = shown[p]
               => Len(dev'.setContent[p]) = 0
          /\ buffers[ActiveBack].cells[p] # shown[p]
               => Len(dev'.setContent[p]) = 1]_vars

\* C6: a Present() that finds the active back buffer clean makes no device
\* call, and the second of two consecutive Present() calls makes none.
C6_PresentIdempotent ==
  /\ (tcall = "Present" /\ ~dev.ran) => dev = NoDeviceCalls
  /\ presentsInRow >= 2 => dev = NoDeviceCalls

\* a second consecutive Present() has run over a back buffer that holds a
\* cell the first one wrote out
C6_Witness ==
  /\ tcall = "Present" /\ presentsInRow = 2
  /\ \E p \in Surface(size) : buffers[ActiveBack].cells[p] # NoCell
  /\ ~buffers[ActiveBack].dirty
  /\ dev = NoDeviceCalls

\* C7 (as claimed): Present() writes nothing at a coordinate that is empty
\* in both buffers; a blank (the write made for a missing back cell) goes
\* only where the front buffer has a cell and the back buffer has none.
C7_BlankOnlyOverFrontCell ==
  tcall = "Present"
  => \A p \in Surface(size) :
       /\ (buffers[ActiveBack].cells[p] = NoCell
           /\ buffers[ActiveFront].cells[p] = NoCell)
             => dev.setContent[p] = <<>>
       /\ (buffers[ActiveBack].cells[p] = NoCell
           /\ dev.setContent[p] = <<BlankWrite>>)
             => buffers[ActiveFront].cells[p] # NoCell

\* ------------------------------------------------------------------------
\* Claims about the goroutines (checked under SpecConc, FairSpecConc, SpecBuf)
\* ------------------------------------------------------------------------
\* the handler goroutine h is past its first instruction and has not returned
InHandler(h) == pc[h].op \in EventKinds /\ pc[h].ip > 1
\* goroutine a is inside Present(), past its first instruction
InPresent(a) == pc[a].op = "Present" /\ pc[a].ip > 1
\* a value of t.size that some resize event (or start-up) has set as a whole
WholeSizes == {InitialSize, ResizedSize}

\* C8: mutual exclusion over the terminal state: at no time are two event
\* handlers, or an event handler and a Present(), inside their bodies
\* together, and the size a Present() scan reads is never half-updated.
C8_HandlersExcludeEachOtherAndPresent ==
  /\ \A h1 \in Handlers, h2 \in Handlers :
       h1 # h2 => ~(InHandler(h1) /\ InHandler(h2))
  /\ \A h \in Handlers, a \in AppThreads : ~(InHandler(h) /\ InPresent(a))
  /\ \A a \in AppThreads :
       (Running(a) /\ Cur(a).k = "Scan") => size \in WholeSizes

\* a resize handler is between its two writes of t.size while the other
\* handler goroutine and a Present() both wait for t.lock
C8_Witness ==
  \E h \in Handlers, g \in Handlers, a \in AppThreads :
    /\ h # g
    /\ pc[h].op = "resize" /\ pc[h].ip = 3
    /\ size \notin WholeSizes
    /\ pc[g].op \in EventKinds /\ pc[g].ip = 1
    /\ pc[a].op = "Present" /\ pc[a].ip = 1

\* C9: every event handler goroutine that has been dispatched eventually
\* runs to completion and releases t.lock, also when Shutdown() is called
\* meanwhile and when the event channel is full.
C9_DispatchedHandlersComplete ==
  \A h \in Handlers :
    (pc[h].op \in EventKinds) ~> (pc[h].op = "done" /\ locks[TLock].w # h)

\* C10: every read or write of a Buffer's cells, size, cursor or dirty flag
\* is made while the goroutine holds that Buffer's lock in the matching
\* mode (exclusive for a write, at least shared for a read).
C10_BufferAccessUnderLock ==
  \A t \in Threads :
    Running(t) =>
      /\ Cur(t).k \in WriteKinds => Held(t, Cur(t).l) = "w"
      /\ Cur(t).k \in ReadKinds => Held(t, Cur(t).l) \in {"r", "w"}

\* C11: a paint call (DrawCell/DrawStyledCell) is never blocked waiting for
\* an event handler that is updating the terminal's size or focus flag:
\* while such a handler is inside its body the painter can take its next step.
C11_PaintNotBlockedByHandler ==
  \A a \in AppThreads, h \in Handlers :
    (pc[a].op = "DrawStyledCell" /\ InHandler(h) /\ pc[h].op \in {"resize", "focus"})
      => CanRun(a, Cur(a))

\* ------------------------------------------------------------------------
\* Claims about constraints and layout (checked under SpecLayout)
\* ------------------------------------------------------------------------
LayoutOps == {"BaseLayout", "BoxLayout"}

\* C12 (as amended): for every render object and every constraints value c,
\* Layout(c) returns a size within the normalized envelope of c, that is
\* between the smaller and the larger of c.MinSize and c.MaxSize on each
\* axis, whatever the insets and whatever size the child reports.
C12_LayoutWithinNormalizedEnvelope ==
  lcall.op \in LayoutOps => IsSatisfiedBy(Normalize(lcall.c), lcall.size)

\* a box whose child reports more than it was allowed and whose insets are
\* not zero: the sum exceeds c.MaxSize and the box returns c.MaxSize
C12_Witness ==
  /\ lcall.op = "BoxLayout" /\ lcall.child = "over"
  /\ HorizontalInsets(lcall.style) > 0
  /\ IsNormalized(lcall.c) /\ lcall.c.MinSize # lcall.c.MaxSize
  /\ lcall.size = lcall.c.MaxSize

\* C12 (as stated): Layout(c) returns a size s with
\* c.MinSize <= s <= c.MaxSize component-wise for every constraints value c.
C12_LayoutWithinGivenBounds ==
  lcall.op \in LayoutOps => IsSatisfiedBy(lcall.c, lcall.size)

\* C13 (as amended): for all constraints c and sizes s, c.Constrain(s) lies
\* within the normalized envelope of c; for a c with MinSize <= MaxSize this
\* is [c.MinSize, c.MaxSize].
C13_ConstrainWithinNormalizedEnvelope ==
  lcall.op = "Constrain" =>
    /\ IsSatisfiedBy(Normalize(lcall.c), lcall.size)
    /\ IsNormalized(lcall.c) => IsSatisfiedBy(lcall.c, lcall.size)

\* a size too wide and too low for a normalized, non-tight c was clamped
C13_Witness ==
  /\ lcall.op = "Constrain"
  /\ IsNormalized(lcall.c)
  /\ lcall.arg.Width > lcall.c.MaxSize.Width
  /\ lcall.arg.Height < lcall.c.MinSize.Height
  /\ lcall.size = Size(lcall.c.MaxSize.Width, lcall.c.MinSize.Height)

\* C13 (as stated): for all constraints c and all sizes s, c.Constrain(s)
\* lies within [c.MinSize, c.MaxSize] component-wise.
C13_ConstrainWithinGivenBounds ==
  lcall.op = "Constrain" => IsSatisfiedBy(lcall.c, lcall.size)

\* s exceeds t (is below t) in both components
Exceeds(s, t) == s.Width > t.Width /\ s.Height > t.Height

\* C14: WithMinSize(m) with m exceeding c.MaxSize, and WithMaxSize(m) with m
\* below c.MinSize, yield MinSize = MaxSize = m.
C14_CrossingBoundCollapses ==
  /\ (lcall.op = "WithMinSize" /\ IsNormalized(lcall.c)
        /\ Exceeds(lcall.arg, lcall.c.MaxSize))
       => (lcall.outc.MinSize = lcall.arg /\ lcall.outc.MaxSize = lcall.arg)
  /\ (lcall.op = "WithMaxSize" /\ IsNormalized(lcall.c)
        /\ Exceeds(lcall.c.MinSize, lcall.arg))
       => (lcall.outc.MinSize = lcall.arg /\ lcall.outc.MaxSize = lcall.arg)

Floor0(x) == IF x < 0 THEN 0 ELSE x

\* C15: a box laying out under c lays out its first child with c.MinSize and
\* c.MaxSize each reduced by the horizontal and vertical insets and floored
\* at zero; with padding 5 on every side, c = {50,50}..{100,100} and a child
\* returning its MinSize the child gets {40,40}..{90,90} and the box
\* returns {50,50}.
C15_ChildGetsContentConstraints ==
  (lcall.op = "BoxLayout" /\ lcall.child # "none") =>
    /\ lcall.childConstraints =
         NewConstraints(
           Size(Floor0(lcall.c.MinSize.Width - HorizontalInsets(lcall.style)),
                Floor0(lcall.c.MinSize.Height - VerticalInsets(lcall.style))),
           Size(Floor0(lcall.c.MaxSize.Width - HorizontalInsets(lcall.style)),
                Floor0(lcall.c.MaxSize.Height - VerticalInsets(lcall.style))))
    /\ (lcall.c = ScenarioConstraints /\ lcall.style = ScenarioStyle
          /\ lcall.child = "base")
         => /\ lcall.childConstraints = NewConstraints(Size(40, 40), Size(90, 90))
            /\ lcall.size = Size(50, 50)

\* the padded-box scenario has run
C15_Witness ==
  /\ lcall.op = "BoxLayout" /\ lcall.child = "base"
  /\ lcall.c = ScenarioConstraints /\ lcall.style = ScenarioStyle
  /\ lcall.size = Size(50, 50)

\* ------------------------------------------------------------------------
\* Further claims about the reconciler (checked under SpecElem)
\* ------------------------------------------------------------------------
\* C16: in every reachable state, every element whose mounted flag is true
\* has a non-nil RenderObject.
C16_MountedHasRenderObject ==
  \A e \in Allocated : elems[e].mounted => elems[e].renderObject

\* a Mount() call has mounted a root and, through Build, a child below it
C16_Witness ==
  /\ call.op = "Mount"
  /\ \E e \in Allocated, f \in Allocated :
       /\ elems[e].mounted /\ elems[e].parent = NoElem /\ elems[e].renderObject
       /\ elems[f].mounted /\ elems[f].parent = e /\ elems[f].renderObject

\* C17: the unmounted state reached by Unmount() is terminal: an element
\* whose Unmount() has run on it while mounted is never mounted again, by
\* Mount() or by any other operation.
C17_UnmountedIsTerminal ==
  \A e \in everUnmounted : ~elems[e].mounted

\* ------------------------------------------------------------------------
\* Claims about the alternate screen (checked under SpecTerm)
\* ------------------------------------------------------------------------
\* C18: EnterAltScreen(), called while the alternate screen is not active,
\* switches to the alternate buffer pair, clears both alternate buffers,
\* presents, and returns to the caller.
C18_EnterAltScreenPresentsAndReturns ==
  [][(tcall' = "EnterAltScreen" /\ ~usingAltScreen) =>
       /\ usingAltScreen'
       /\ \A p \in Coords : /\ buffers'[altFrontBuffer'].cells[p] = NoCell
                            /\ buffers'[altBackBuffer'].cells[p] = NoCell
       /\ ~hung']_vars

\* ExitAltScreen() called with the alternate screen active returns, with
\* the main buffers holding what they held when the screen was entered
ExitAltScreenRestores ==
  /\ usingAltScreen
  /\ ExitAltScreen
  /\ ~hung'
  /\ [front |-> buffers'[mainFrontBuffer'], back |-> buffers'[mainBackBuffer']]
       = mainAtEntry

\* C19: while the alternate screen is active no terminal operation modifies
\* the main front or main back buffer, and ExitAltScreen() then leaves the
\* main buffers with exactly the cells and cursor they held on entry.
C19_AltScreenLeavesMainBuffers ==
  /\ [][usingAltScreen =>
          [front |-> buffers'[mainFrontBuffer'], back |-> buffers'[mainBackBuffer']]
            = mainAtEntry]_vars
  /\ [](usingAltScreen => ENABLED ExitAltScreenRestores)

\* ------------------------------------------------------------------------
\* Claims about Buffer contents (checked under SpecBuffer)
\* ------------------------------------------------------------------------
\* cells and cursor of a Buffer after the step
ContentsNext(n) == [cells |-> maps'[bufs'[n].cells], cursor |-> bufs'[n].cursor]

\* C20: dst.CopyFrom(src) is a deep copy.  When the call returns, GetCell on
\* dst gives at every coordinate the cell src held when the copy was made,
\* and GetCursor gives src's cursor; and from then on a call on one Buffer
\* leaves the cells and cursor of the other as they were.
C20_CopyFromIsDeepCopy ==
  [][/\ (bcall'.op = "CopyFrom" /\ bcalls' # bcalls /\ ~blocked')
          => /\ ContentsNext(atCopy'.dst) = Contents(atCopy'.src)
             /\ atCopy'.read = Contents(atCopy'.src)
     /\ (atCopy.dst # NoBuf /\ bcalls' # bcalls)
          => \A n \in BufNames :
               n # bcall'.buf => ContentsNext(n) = Contents(n)]_vars

\* the source was written after a copy of a non-empty Buffer, and the
\* destination still holds what was copied
C20_Witness ==
  /\ atCopy.dst # NoBuf
  /\ \E p \in BufCoords : atCopy.read.cells[p] # NoCell
  /\ bcall.op = "SetCell" /\ bcall.buf = atCopy.src
  /\ Contents(atCopy.src) # atCopy.read
  /\ Contents(atCopy.dst) = atCopy.read

\* the Buffer the step's call was made on
Receiver == bcall'.buf
\* the step is a Buffer call of the given name
IsBufCall(op) == bcalls' # bcalls /\ bcall'.op = op /\ ~blocked'
\* p lies in [0,width-1] x [0,height-1]
InBounds(p, sz) == p.X >= 0 /\ p.X < sz.Width /\ p.Y >= 0 /\ p.Y < sz.Height
\* a Buffer of 80 columns and 24 rows with its cursor at the origin
Buffer80x24 ==
  [bufs |-> [n \in BufNames |->
               [cells |-> 1, size |-> [Width |-> 80, Height |-> 24],
                cursor |-> Point(0, 0), dirty |-> FALSE]],
   maps |-> [m \in MapIds |-> EmptyMap]]

\* C21 (as the code has it): after MoveCursor(dx,dy) on a Buffer with at least one
\* column and one row, the cursor lies in [0,width-1] x [0,height-1],
\* whatever the cursor was before and whatever the delta; (-10,-10) from
\* (0,0) gives (0,0) and (100,100) from (0,0) at 80x24 gives (79,23).
C21_MoveCursorClampsOnNonEmptyBuffer ==
  [][/\ (/\ IsBufCall("MoveCursor")
         /\ bufs[Receiver].size.Width >= 1 /\ bufs[Receiver].size.Height >= 1)
          => InBounds(bufs'[Receiver].cursor, bufs'[Receiver].size)
     /\ BufferGetCursor(BufferMoveCursor(Buffer80x24, "a", -10, -10), "a") = Point(0, 0)
     /\ BufferGetCursor(BufferMoveCursor(Buffer80x24, "a", 100, 100), "a") = Point(79, 23)
    ]_vars

\* the cursor was moved by (100,100) and stands in the last cell of a
\* two-column Buffer
C21_Witness ==
  /\ bcall.op = "MoveCursor" /\ bcall.arg = Point(100, 100)
  /\ bufs[bcall.buf].size = InitialSize
  /\ bufs[bcall.buf].cursor = Point(1, 0)

\* C21 as stated: after MoveCursor(dx,dy) the cursor lies in
\* [0,width-1] x [0,height-1] for a Buffer of any size.
C21_MoveCursorClamps ==
  [][IsBufCall("MoveCursor")
       => InBounds(bufs'[Receiver].cursor, bufs'[Receiver].size)]_vars

\* C22: after Resize(newSize) the Buffer holds exactly the cells it held
\* before at coordinates inside the new bounds, each unchanged, and no cell at
\* a coordinate outside the new bounds.
C22_ResizeKeepsExactlyInBounds ==
  [][IsBufCall("Resize")
       => \A p \in BufCoords :
            BufferGetCell([bufs |-> bufs', maps |-> maps'], Receiver, p.X, p.Y)
              = IF InBounds(p, [Width |-> bcall'.arg.X, Height |-> bcall'.arg.Y])
                THEN BufferGetCell(HeapNow, Receiver, p.X, p.Y)
                ELSE NoCell]_vars

\* C23: a write outside the bounds is inert.  After SetCell at a coordinate
\* outside the Buffer's bounds, GetCell at that coordinate still reports
\* that no cell is present.
C23_OutOfBoundsWriteIsInert ==
  [][(IsBufCall("SetCell") /\ ~InBounds(bcall'.arg, bufs[Receiver].size))
       => BufferGetCell([bufs |-> bufs', maps |-> maps'], Receiver,
                        bcall'.arg.X, bcall'.arg.Y) = NoCell]_vars

\* ------------------------------------------------------------------------
\* Claims about suspension and the clipboard (checked under SpecSession)
\* ------------------------------------------------------------------------
\* C24: when Resume() returns, with or without an error from the device's
\* re-initialisation, the Terminal is marked not suspended.
C24_ResumeClearsSuspended ==
  [][(scalls' # scalls /\ scall'.op = "Resume") => ~suspended']_vars

\* C25: SetClipboard(c) followed by GetClipboard() returns c and no error,
\* whichever of the provider's Set and Get calls fail.
C25_ClipboardRoundTrip ==
  [][(/\ scall.op = "SetClipboard"
      /\ scalls' # scalls /\ scall'.op = "GetClipboard")
       => /\ scall'.out = scall.arg
          /\ ~scall'.err /\ ~scall.err]_vars

\* ------------------------------------------------------------------------
\* Claims about drawing combining marks (checked under SpecTerm)
\* ------------------------------------------------------------------------
\* a combining mark is drawn at p in this step, and the cell left of p holds
\* a rune other than the blank
MarkDrawnAfterBase(p, st) ==
  /\ GetCell(buffers[ActiveBack], p.X - 1, p.Y) # NoCell
  /\ GetCell(buffers[ActiveBack], p.X - 1, p.Y).Rune # " "
  /\ DrawStyledCell(p.X, p.Y, "mark", st)

\* the mark went to the left cell, which keeps its rune and earlier marks,
\* and the cell at p is as it was
MarkAttached(p) ==
  LET prevCell == GetCell(buffers[ActiveBack], p.X - 1, p.Y)
      cell == GetCell(buffers'[ActiveBack], p.X - 1, p.Y)
  IN /\ cell.Rune = prevCell.Rune
     /\ cell.Combining = prevCell.Combining \o <<"mark">>
     /\ GetCell(buffers'[ActiveBack], p.X, p.Y) = GetCell(buffers[ActiveBack], p.X, p.Y)

IsCtxDraw == xcalls' # xcalls /\ xcall'.op \in {"DrawCell", "DrawStyledCell"}
\* p lies in rect r
InRect(p, r) == p.X >= r.Min.X /\ p.X < r.Max.X /\ p.Y >= r.Min.Y /\ p.Y < r.Max.Y

\* C27: a DrawCell or DrawStyledCell at (x,y) reaches the Terminal only if
\* (x,y) moved by the cumulative offset lies within the context's bounds and
\* within the innermost active clip rect.
C27_ForwardedOnlyInsideBoundsAndClip ==
  [][(IsCtxDraw /\ xcall'.forwarded)
       => LET moved == Point(xcall'.at.X + offset.X, xcall'.at.Y + offset.Y)
          IN /\ InBounds(moved, size)
             /\ clipRect # <<>> => InRect(moved, Head(clipRect))]_vars

\* C28: offsets are a stack.  A PopOffset that matches an earlier PushOffset
\* puts back the cumulative offset that was in force before that push.
C28_PopOffsetUndoesPush ==
  [][(xcalls' # xcalls /\ xcall'.op = "PopOffset" /\ pushed # <<>>)
       => offset' = pushed[Len(pushed)]]_vars

\* ------------------------------------------------------------------------
\* Claims about render objects (checked under SpecRender)
\* ------------------------------------------------------------------------
\* C29: after r.AppendChild(c) the parent of c is r, whatever kind of render
\* object c is; after RemoveChild(c) or ClearChildren() the parent of each
\* detached child is nil; so every object in r.Children() has r as parent.
C29_ChildrenPointToParent ==
  /\ [][(rcalls' # rcalls /\ rcall'.op = "AppendChild")
          => robjs'[rcall'.c].parent = Ref(rcall'.r)]_vars
  /\ [][(rcalls' # rcalls /\ rcall'.op \in {"RemoveChild", "ClearChildren"})
          => \A c \in rcall'.detached : robjs'[c].parent = NilRef]_vars
  /\ [](\A r \in RenderIds :
          \A i \in 1..Len(robjs[r].children) :
            robjs[robjs[r].children[i]].parent = Ref(r))

\* ------------------------------------------------------------------------
\* Claims about shutdown of the polling task (checked under SpecConc)
\* ------------------------------------------------------------------------
\* C30: once Shutdown() has closed the shutdown signal, the polling task
\* starts no further event handler (the claim's safety half; its other half
\* is that the task then returns).
C30_NoDispatchAfterShutdown ==
  [][stopped => \A h \in Handlers : pc[h] = Idle => pc'[h] = Idle]_vars

\* ------------------------------------------------------------------------
\* Claims about replacement, rebuild passes and layout passes (checked
\* under SpecTree unless stated otherwise)
\* ------------------------------------------------------------------------

\* first index of e in the sequence s (0 when absent)
FirstIndex(s, e) ==
  IF \E i \in 1..Len(s) : s[i] = e
  THEN CHOOSE i \in 1..Len(s) : s[i] = e /\ \A j \in 1..(i - 1) : s[j] # e
  ELSE 0

C32_BuildTouchesOnlyOwnSubtree ==
  [][\A e \in ElemIds :
       (call'.op \in {"Build", "RebuildIfNeeded"} /\ call'.e = e)
       => \A q \in ElemIds :
            (elems[q].alloc /\ e \notin AncestorsOrSelf(elems, q))
            => elems'[q] = elems[q]]_vars

RECURSIVE Descendants(_, _)
\* the elements reached from e through Children(), e excluded
Descendants(el, e) ==
  UNION {{el[e].children[i]} \cup Descendants(el, el[e].children[i]) :
           i \in 1..Len(el[e].children)}

\* C33 (as claimed): LayoutPhase() on an element whose needsLayout is set
\* lays out its own render object and the render object of every
\* descendant, whatever the descendant's own needsLayout flag, and then
\* clears the flag.
C33_LayoutReachesCleanDescendants ==
  [][\A e \in ElemIds :
       (call'.op = "LayoutPhase" /\ call'.e = e /\ elems[e].needsLayout)
       => /\ ~elems'[e].needsLayout
          /\ elems[e].renderObject => e \in lastLaidOut'
          /\ \A d \in Descendants(elems, e) :
               elems[d].renderObject => d \in lastLaidOut']_vars

AllClean == \A e \in ElemIds : elems[e].mounted => ~elems[e].dirty

\* a call ended in a panic, or a dirty element's rebuild needs more
\* elements than the pool holds: no pass can go on
PassesStopped ==
  \/ panicked
  \/ \E e \in ElemIds :
       elems[e].mounted /\ elems[e].dirty /\ ~RebuildIfNeeded(Heap, e).ok

\* C35 (as claimed): once the application makes no further call, the
\* repeated rebuild passes reach a state in which no mounted element is
\* dirty (and stay there).
C35_RebuildPassesConverge == <>[](AllClean \/ PassesStopped)

\* C36 (as claimed): the first LayoutPhase() on the root of a tree that has
\* just been mounted, with no MarkNeedsLayout() before it, lays out the
\* render object of every mounted element of the tree.
C36_FirstLayoutAfterMountLaysOutTree ==
  [][\A e \in ElemIds :
       (call.op = "Mount" /\ call.e = e /\ ~call.pre /\ ~panicked
        /\ call'.op = "LayoutPhase" /\ call'.e = e)
       => \A d \in {e} \cup Descendants(elems, e) :
            (elems[d].mounted /\ elems[d].renderObject) => d \in lastLaidOut']_vars

\* ------------------------------------------------------------------------
\* Claims about event order, lock order and callbacks
\* ------------------------------------------------------------------------

\* goroutine h handles a key or mouse event and has not yet sent it
BeforeSend(h) == pc[h].op \in {"key", "mouse"} /\ Cur(h).k \in {"Lock", "Send"}
\* goroutine h has sent its key or mouse event on t.eventChan
AfterSend(h) == pc[h].op \in {"key", "mouse"} /\ Cur(h).k = "Unlock"

\* C37 (as claimed): of two key or mouse events, the one PollEvent returned
\* first (handled by h1) is sent on t.eventChan first: the later event is
\* never on the channel while the earlier one is still to be sent.
C37_ChannelOrderIsPollOrder == ~(BeforeSend("h1") /\ AfterSend("h2"))

\* some goroutine that is inside a method can execute its next instruction
SomeoneCanStep == \E t \in Threads : Running(t) /\ CanRun(t, Cur(t))

\* C38 (as claimed): a goroutine inside CopyFrom is never blocked for ever
\* on the Buffer locks: whenever one is inside CopyFrom, it or a goroutine
\* holding a lock it waits for can go on.  (Locks are held only by
\* goroutines inside a method, and a call that starts later releases none,
\* so a state in which no goroutine inside a method can step is final.)
C38_CopyFromNeverBlocksForEver ==
  \A a \in AppThreads : pc[a].op = "CopyFrom" => SomeoneCanStep

\* the DrawStyledCell calls of marks started so far
MarkDraws ==
  (MaxAppOps - opsLeft["app1"]) + (MaxAppOps - opsLeft["app2"])

\* C39 (as claimed): when every concurrent DrawStyledCell of a mark onto
\* the same base cell has returned, the base cell carries one mark for each
\* of the calls.
C39_NoMarkLost ==
  (\A a \in AppThreads : pc[a] = Idle)
  => Len(GetCell(buffers[ActiveBack], MarkX - 1, MarkY).Combining) = MarkDraws

\* goroutine t is in the method or event goroutine that calls a callback
InCallbackCaller(t) == pc[t].op \in EventCallbacks \cup SessionCallbacks

\* C40 (as claimed): the caller of a resize, focus, suspend or resume
\* callback is never left blocked on t.lock by what the callback calls:
\* whenever a goroutine is in such a caller, some goroutine inside a method
\* can go on.  (A state in which none can is final: locks are held only by
\* goroutines inside a method.)
C40_CallbackMayCallTerminal ==
  \A t \in Threads : InCallbackCaller(t) => SomeoneCanStep
====
